---- MODULE Spec2Model ----
(***************************************************************************)
(* Model of the modCA predator/prey/substrate cellular automaton:          *)
(*   grid.py        initialize_grid, get_neighbors_coords, count_neighbors *)
(*   simulation.py  Simulation.__init__, step, _update_* , _get_nearby_cells*)
(*                                                                         *)
(* Probabilities are integers in thousandths (0.25 is 250).  A draw        *)
(* random.random() < p is the set of booleans it can produce: random()     *)
(* lies in [0,1), so p <= 0 never succeeds and p >= 1 always does.         *)
(* Float products of initialize_grid (int(n * 0.8), int(n * ratio), ...)   *)
(* are computed exactly as floor(n * num / den); the requests below are    *)
(* chosen where the double-precision result equals that floor.             *)
(***************************************************************************)
EXTENDS Integers, Sequences, FiniteSets, TLC

(* ---- constants.py ---- *)
EMPTY == 0
PREY == 1
PREDATOR == 2
SUBSTRATE == 3

Kinds == {EMPTY, PREY, PREDATOR, SUBSTRATE}

\* denominator of every probability of the model (thousandths)
ProbDen == 10 * 100

(* ---- bounds of the model ---- *)
\* largest grid side for which initialize_grid builds the grid cell by cell;
\* above it only the lengths of the placed index slices are kept
MaxExplicitSize == 10
\* largest number of cells whose shuffle is drawn from all permutations
MaxFullShuffle == 4
\* number of generations a simulation is run for
MaxGen == 2

(* ---- python values ---- *)
PyInt(v) == [t |-> "int", v |-> v]
PyFloat(v) == [t |-> "float", v |-> v]

\* dict helpers: a dict is a function whose domain is the set of its keys
Put(d, k, v) == [x \in (DOMAIN d) \cup {k} |-> IF x = k THEN v ELSE d[x]]
Get(d, k, default) == IF k \in DOMAIN d THEN d[k] ELSE default
EmptyDict == [x \in {} |-> 0]

\* an entry of a parameter dict whose value is not a number (a str, None):
\* the keys of such entries are listed under "ill_typed", and reading one of
\* them where the code compares or multiplies raises TypeError.  The dicts of
\* the model list no other keys there than 'predator_death_chance',
\* 'prey_death_chance' and the two starvation thresholds.
IllTyped(d, k) == k \in Get(d, "ill_typed", {})

\* a dict built without the key k
Without(d, k) == [x \in (DOMAIN d) \ {k} |-> d[x]]

Min(a, b) == IF a <= b THEN a ELSE b
Abs(a) == IF a < 0 THEN 0 - a ELSE a

(* ---- grids ---- *)
Coords(size) == (0 .. size - 1) \X (0 .. size - 1)

\* np.unravel_index(i, (size, size))
Unravel(i, size) == <<i \div size, i % size>>

\* np.count_nonzero(grid == kind)
CountKind(g, kind) == Cardinality({c \in DOMAIN g : g[c] = kind})

\* create_empty_grid: np.zeros((size, size))
create_empty_grid(size) == [c \in Coords(size) |-> EMPTY]

(* ---- shuffles ---- *)
\* all permutations of 0 .. n-1 as sequences
AllPerms(n) ==
    {p \in [1 .. n -> 0 .. n - 1] : \A i, j \in 1 .. n : i # j => p[i] # p[j]}

\* rotations of the identity and of its reverse: the shuffles drawn for
\* grids too large to enumerate every permutation
RotPerms(n) ==
    {[i \in 1 .. n |-> (i - 1 + k) % n] : k \in {0, 1, n \div 2}}
      \cup {[i \in 1 .. n |-> (n - i + k) % n] : k \in {0, 1, n \div 2}}

\* outcomes of np.random.shuffle / random.shuffle on n items
ShuffleOutcomes(n) == IF n <= MaxFullShuffle THEN AllPerms(n) ELSE RotPerms(n)

\* all_indices[start : start + count] as a set of flat indices
Slice(perm, start, count) ==
    {perm[j] : j \in (start + 1) .. Min(start + count, Len(perm))}

(* ======================= grid.py : initialize_grid ======================= *)

\* grid sides at which the large-grid density policy starts / tightens
VeryLargeSize == 800
HugeSize == 1000
\* density caps in tenths of the cells: 0.3, 0.4 (large grids), 0.8 (regular)
HugeDensityTenths == 3
VeryLargeDensityTenths == 4
RegularDensityTenths == 8
\* cap of the substrate probability on large grids: 0.2
LargeSubstrateCap == 200

\* the parameter validation at the head of initialize_grid
ValidRequestNoUpper(r) ==
    /\ r.size.t = "int" /\ r.size.v > 0
    /\ r.initial_prey.t = "int" /\ r.initial_prey.v >= 0
    /\ r.initial_predators.t = "int" /\ r.initial_predators.v >= 0
    /\ r.initial_substrate_prob.t = "float"
    /\ 0 <= r.initial_substrate_prob.v

ValidRequest(r) ==
    /\ r.size.t = "int" /\ r.size.v > 0
    /\ r.initial_prey.t = "int" /\ r.initial_prey.v >= 0
    /\ r.initial_predators.t = "int" /\ r.initial_predators.v >= 0
    /\ r.initial_substrate_prob.t = "float"
    /\ 0 <= r.initial_substrate_prob.v
    /\ r.initial_substrate_prob.v <= ProbDen

\* ratio-preserving reduction of (prey, predators) to max_entities:
\*   ratio = prey / total; adjusted_prey = int(max_entities * ratio);
\*   adjusted_predators = max_entities - adjusted_prey
SplitEntitiesKeepPredators(max_entities, prey, pred) ==
    LET total_entities == prey + pred
        adjusted_prey == IF total_entities > 0
                         THEN (max_entities * prey) \div total_entities
                         ELSE max_entities \div 2
    IN  [prey |-> adjusted_prey, pred |-> pred]

SplitEntities(max_entities, prey, pred) ==
    LET total_entities == prey + pred
        adjusted_prey == IF total_entities > 0
                         THEN (max_entities * prey) \div total_entities
                         ELSE max_entities \div 2
    IN  [prey |-> adjusted_prey, pred |-> max_entities - adjusted_prey]

\* total_entities > total_cells * max_density, max_density in tenths
ExceedsDensityPerMille(total_entities, total_cells, tenths) ==
    total_entities * 1000 > total_cells * tenths

ExceedsDensity(total_entities, total_cells, tenths) ==
    total_entities * 10 > total_cells * tenths

\* max_density = 0.3 if size >= 1000 else 0.4
MaxDensityTenthsFlat(size) == VeryLargeDensityTenths

MaxDensityTenths(size) ==
    IF size >= HugeSize THEN HugeDensityTenths ELSE VeryLargeDensityTenths

\* the density policy: the (prey, predators, probability) used for placement
\* and the adjustment report it records
DensityClamp(size, prey, pred, prob) ==
    LET total_cells == size * size
        total_entities == prey + pred
        info0 == [values_adjusted |-> FALSE,
                  original_values |-> [initial_prey |-> prey,
                                       initial_predators |-> pred,
                                       initial_substrate_prob |-> prob],
                  adjusted_values |-> EmptyDict,
                  reason |-> <<>>]
        Reduced(tenths, why) ==
            LET max_entities == (total_cells * tenths) \div 10
                s == SplitEntities(max_entities, prey, pred)
            IN  [prey |-> s.prey, pred |-> s.pred, prob |-> prob,
                 adjustments_made |-> TRUE,
                 info |-> [info0 EXCEPT
                     !.values_adjusted = TRUE,
                     !.adjusted_values =
                         Put(Put(EmptyDict, "initial_prey", s.prey),
                             "initial_predators", s.pred),
                     !.reason = <<why>>]]
        Same == [prey |-> prey, pred |-> pred, prob |-> prob,
                 adjustments_made |-> FALSE, info |-> info0]
        SubstrateCapped(a) ==
            IF a.prob > LargeSubstrateCap
            THEN [a EXCEPT
                     !.prob = Min(a.prob, LargeSubstrateCap),
                     !.adjustments_made = TRUE,
                     !.info = [a.info EXCEPT
                         !.values_adjusted = TRUE,
                         !.adjusted_values =
                             Put(a.info.adjusted_values, "initial_substrate_prob",
                                 Min(a.prob, LargeSubstrateCap)),
                         !.reason = Append(a.info.reason, "substrate_capped")]]
            ELSE a
    IN  IF size >= VeryLargeSize
        THEN LET tenths == MaxDensityTenths(size)
             IN  SubstrateCapped(
                     IF ExceedsDensity(total_entities, total_cells, tenths)
                     THEN Reduced(tenths, "grid_too_large")
                     ELSE Same)
        ELSE IF ExceedsDensity(total_entities, total_cells, RegularDensityTenths)
        THEN Reduced(RegularDensityTenths, "too_many_entities")
        ELSE Same

\* lengths of the three slices of the shuffled index taken by the placement
SliceCountsFromZero(total_cells, prey, pred, prob) ==
    LET predator_count == IF pred > 0 THEN Min(pred, total_cells - 0) ELSE 0
        prey_count == IF prey > 0 THEN Min(prey, total_cells - 0) ELSE 0
        index2 == predator_count + prey_count
        remaining_cells == total_cells - index2
        substrate_count == IF prob > 0
                           THEN (remaining_cells * prob) \div ProbDen
                           ELSE 0
    IN  [predator_count |-> predator_count, predator_start |-> 0,
         prey_count |-> prey_count, prey_start |-> 0,
         substrate_count |-> substrate_count, substrate_start |-> index2]

SliceCounts(total_cells, prey, pred, prob) ==
    LET predator_count == IF pred > 0 THEN Min(pred, total_cells - 0) ELSE 0
        index1 == predator_count
        prey_count == IF prey > 0 THEN Min(prey, total_cells - index1) ELSE 0
        index2 == index1 + prey_count
        remaining_cells == total_cells - index2
        substrate_count == IF prob > 0
                           THEN (remaining_cells * prob) \div ProbDen
                           ELSE 0
    IN  [predator_count |-> predator_count, predator_start |-> 0,
         prey_count |-> prey_count, prey_start |-> index1,
         substrate_count |-> substrate_count, substrate_start |-> index2]

\* grid[np.unravel_index(indices, (size, size))] = kind
Assign(g, size, indices, kind) ==
    [c \in DOMAIN g |->
        IF \E i \in indices : Unravel(i, size) = c THEN kind ELSE g[c]]

\* the three vectorised assignments, in the order of the code
PlaceSlices(size, perm, k) ==
    LET g0 == create_empty_grid(size)
        g1 == Assign(g0, size,
                     Slice(perm, k.predator_start, k.predator_count), PREDATOR)
        g2 == Assign(g1, size,
                     Slice(perm, k.prey_start, k.prey_count), PREY)
        g3 == Assign(g2, size,
                     Slice(perm, k.substrate_start, k.substrate_count), SUBSTRATE)
    IN  g3

\* the final counts of each kind: counted on the grid when it is built cell
\* by cell, else the lengths of the (pairwise disjoint) slices
FinalCounts(size, g, k, explicit) ==
    IF explicit
    THEN [predator |-> CountKind(g, PREDATOR), prey |-> CountKind(g, PREY),
          substrate |-> CountKind(g, SUBSTRATE), empty |-> CountKind(g, EMPTY)]
    ELSE [predator |-> k.predator_count, prey |-> k.prey_count,
          substrate |-> k.substrate_count,
          empty |-> size * size - k.predator_count - k.prey_count
                      - k.substrate_count]

\* the adjustment bookkeeping of the placement and of the final recount
PlacementReport(a, k, counts) ==
    LET i1 == IF a.pred > 0 /\ k.predator_count < a.pred
              THEN [a.info EXCEPT
                     !.values_adjusted = TRUE,
                     !.adjusted_values =
                         Put(@, "actual_predator_count", k.predator_count),
                     !.reason = Append(@, "predators_short")]
              ELSE a.info
        i2 == IF a.prey > 0 /\ k.prey_count < a.prey
              THEN [i1 EXCEPT
                     !.values_adjusted = TRUE,
                     !.adjusted_values =
                         Put(@, "actual_prey_count", k.prey_count),
                     !.reason = Append(@, "prey_short")]
              ELSE i1
        i3 == IF a.prob > 0 /\ k.substrate_count > 0
              THEN [i2 EXCEPT
                     !.adjusted_values =
                         Put(@, "actual_substrate_count", k.substrate_count)]
              ELSE i2
        i4 == IF counts.predator # a.pred \/ counts.prey # a.prey
              THEN [i3 EXCEPT
                     !.values_adjusted = TRUE,
                     !.adjusted_values =
                         Put(Put(@, "actual_predator_count", counts.predator),
                             "actual_prey_count", counts.prey)]
              ELSE i3
    IN  i4

\* the shuffles initialize_grid can draw for a grid of the given side
InitShuffles(size) ==
    IF size <= MaxExplicitSize THEN ShuffleOutcomes(size * size) ELSE {<<>>}

\* initialize_grid(size, initial_prey, initial_predators, initial_substrate_prob)
\* for the shuffle perm: the returned (grid, adjustment_info), or the raise
initialize_grid(r, perm) ==
    IF ~ValidRequest(r)
    THEN [raised |-> TRUE]
    ELSE LET size == r.size.v
             explicit == size <= MaxExplicitSize
             a == DensityClamp(size, r.initial_prey.v, r.initial_predators.v,
                               r.initial_substrate_prob.v)
             k == SliceCounts(size * size, a.prey, a.pred, a.prob)
             g == IF explicit THEN PlaceSlices(size, perm, k) ELSE EmptyDict
             counts == FinalCounts(size, g, k, explicit)
         IN  [raised |-> FALSE, size |-> size, explicit |-> explicit,
              grid |-> g, counts |-> counts,
              used |-> [initial_prey |-> a.prey, initial_predators |-> a.pred,
                        initial_substrate_prob |-> a.prob],
              adjustment_info |-> PlacementReport(a, k, counts)]

(* ================== grid.py : neighbourhoods (radius 1) ================== *)

\* the direction list of get_neighbors_coords, in the order of the code
Directions(neighborhood_type) ==
    IF neighborhood_type = "von_neumann"
    THEN << <<0, 1>>, <<1, 0>>, <<0, -1>>, <<-1, 0>> >>
    ELSE << <<-1, -1>>, <<-1, 0>>, <<-1, 1>>, <<0, -1>>,
            <<0, 1>>, <<1, -1>>, <<1, 0>>, <<1, 1>> >>

InGrid(size, n) == 0 <= n[1] /\ n[1] < size /\ 0 <= n[2] /\ n[2] < size

\* get_neighbors_coords(grid, x, y, neighborhood_type, grid_type)
get_neighbors_coords(size, c, neighborhood_type, grid_type) ==
    LET dirs == Directions(neighborhood_type)
        raw == [i \in 1 .. Len(dirs) |-> <<c[1] + dirs[i][1], c[2] + dirs[i][2]>>]
    IN  IF grid_type = "torus"
        THEN [i \in 1 .. Len(raw) |-> <<raw[i][1] % size, raw[i][2] % size>>]
        ELSE SelectSeq(raw, LAMBDA n : InGrid(size, n))

\* a mutation of count_neighbors that counts the neighbours of either animal
count_neighbors_animals(g, size, c, entity_type, neighborhood_type, grid_type) ==
    Len(SelectSeq(get_neighbors_coords(size, c, neighborhood_type, grid_type),
                  LAMBDA n : g[n] \in {PREDATOR, PREY}))

\* count_neighbors(grid, x, y, entity_type, neighborhood_type, grid_type)
count_neighbors(g, size, c, entity_type, neighborhood_type, grid_type) ==
    Len(SelectSeq(get_neighbors_coords(size, c, neighborhood_type, grid_type),
                  LAMBDA n : g[n] = entity_type))

(* ============ simulation.py : Simulation._get_nearby_cells ============ *)

\* the (dx, dy) pairs of the two nested range(-distance, distance + 1) loops
Offsets(distance) ==
    LET w == 2 * distance + 1
    IN  [i \in 1 .. w * w |->
            <<((i - 1) \div w) - distance, ((i - 1) % w) - distance>>]

\* a mutation of nearby_cells that keeps the corners for every neighbourhood
nearby_cells_square(p, size, c, distance) ==
    LET grid_type == Get(p, "grid_type", "bounded")
        Kept(d) == ~(d[1] = 0 /\ d[2] = 0)
        offs == SelectSeq(Offsets(distance), Kept)
        raw == [i \in 1 .. Len(offs) |-> <<c[1] + offs[i][1], c[2] + offs[i][2]>>]
    IN  IF grid_type = "bounded"
        THEN SelectSeq(raw, LAMBDA n : InGrid(size, n))
        ELSE [i \in 1 .. Len(raw) |->
                 <<(raw[i][1] + size) % size, (raw[i][2] + size) % size>>]

\* a mutation of nearby_cells that looks one cell further
nearby_cells_wider(p, size, c, distance) ==
    LET grid_type == Get(p, "grid_type", "bounded")
        neighborhood_type == Get(p, "neighborhood_type", "moore")
        Kept(d) == /\ ~(d[1] = 0 /\ d[2] = 0)
                   /\ ~(neighborhood_type = "von_neumann"
                          /\ Abs(d[1]) + Abs(d[2]) > distance + 1)
        offs == SelectSeq(Offsets(distance + 1), Kept)
        raw == [i \in 1 .. Len(offs) |-> <<c[1] + offs[i][1], c[2] + offs[i][2]>>]
    IN  IF grid_type = "bounded"
        THEN SelectSeq(raw, LAMBDA n : InGrid(size, n))
        ELSE [i \in 1 .. Len(raw) |->
                 <<(raw[i][1] + size) % size, (raw[i][2] + size) % size>>]

\* _get_nearby_cells(x, y, distance): only grid_type 'bounded' is finite,
\* every other value wraps
nearby_cells(p, size, c, distance) ==
    LET grid_type == Get(p, "grid_type", "bounded")
        neighborhood_type == Get(p, "neighborhood_type", "moore")
        Kept(d) == /\ ~(d[1] = 0 /\ d[2] = 0)
                   /\ ~(neighborhood_type = "von_neumann"
                          /\ Abs(d[1]) + Abs(d[2]) > distance)
        offs == SelectSeq(Offsets(distance), Kept)
        raw == [i \in 1 .. Len(offs) |-> <<c[1] + offs[i][1], c[2] + offs[i][2]>>]
    IN  IF grid_type = "bounded"
        THEN SelectSeq(raw, LAMBDA n : InGrid(size, n))
        ELSE [i \in 1 .. Len(raw) |->
                 <<(raw[i][1] + size) % size, (raw[i][2] + size) % size>>]

\* the elements random.choice(list) can return
Elems(seq) == {seq[i] : i \in 1 .. Len(seq)}

\* the outcomes of random.random() < p, p in thousandths
Draw(p) == IF p <= 0 THEN {FALSE} ELSE IF p >= ProbDen THEN {TRUE} ELSE BOOLEAN

\* the outcomes of random.random() < hunt_success_prob * (1 + hunger / threshold);
\* hunger is a numpy integer, so a threshold of 0 gives -inf (hunger is -1
\* there, a hunger of 0 or more has starved) and the comparison is false
HuntDraw(hunt_success_prob, hunger, threshold) ==
    IF hunt_success_prob * (threshold + hunger) <= 0 THEN {FALSE}
    ELSE IF hunt_success_prob * (threshold + hunger) >= ProbDen * threshold
         THEN {TRUE}
         ELSE BOOLEAN

(* ---- defaults of the params.get(...) calls, in thousandths ---- *)
DefaultPredatorDeathChance == 5
DefaultPreyDeathChance == 10
DefaultHuntSuccessProb == 700
DefaultPredatorReproductionChance == 200
DefaultPredatorMovementProb == 500
DefaultPreyReproductionChance == 300
DefaultPredatorStarvationSteps == 10
DefaultPreyStarvationSteps == 15
\* the fixed chance of a threatened prey to stay put
PreyFreezeChance == 700

\* an outcome of one cell rule: the buffers it leaves, whether it raised,
\* and the event counter it incremented
Outcome(b, raised, ev) == [b |-> b, raised |-> raised, ev |-> ev]

(* =================== simulation.py : the four cell rules =================== *)
\* p: self.params; g, ph, yh: self.grid, self.predator_hunger, self.prey_hunger
\* (the generation-start state); b: the buffers new_grid (b.g),
\* new_predator_hunger (b.ph), new_prey_hunger (b.yh); c: the cell (x, y).
\* Each rule is the set of outcomes its random draws can produce.

\* the starvation test of both rules: current_hunger >= hunger_threshold
StarvedLate(current_hunger, hunger_threshold) ==
    current_hunger > hunger_threshold

StarvedEarly(current_hunger, hunger_threshold) ==
    current_hunger + 1 >= hunger_threshold

Starved(current_hunger, hunger_threshold) ==
    current_hunger >= hunger_threshold

\* Simulation._update_predator
update_predator(p, size, g, ph, b, c) ==
    LET current_hunger == ph[c]
        hunger_threshold ==
            Get(p, "predator_starvation_steps", DefaultPredatorStarvationSteps)
        died == Outcome([b EXCEPT !.g[c] = EMPTY], FALSE, "none")
        neighbors == nearby_cells(p, size, c, 2)
        prey_neighbors == SelectSeq(neighbors, LAMBDA n : g[n] = PREY)
        empty_neighbors ==
            SelectSeq(nearby_cells(p, size, c, 1), LAMBDA n : g[n] = EMPTY)
        Hunted(t) ==
            [b EXCEPT !.g = [[@ EXCEPT ![t] = PREDATOR] EXCEPT ![c] = EMPTY],
                      !.ph = [[@ EXCEPT ![t] = 0] EXCEPT ![c] = -1]]
        Offspring(h, o) == [h EXCEPT !.g[o] = PREDATOR, !.ph[o] = 0]
        HuntOutcomes ==
            UNION {
                (IF FALSE \in Draw(Get(p, "predator_reproduction_chance",
                                       DefaultPredatorReproductionChance))
                    \/ empty_neighbors = <<>>
                 THEN {Outcome(Hunted(t), FALSE, "none")} ELSE {})
                \cup
                (IF TRUE \in Draw(Get(p, "predator_reproduction_chance",
                                      DefaultPredatorReproductionChance))
                 THEN {Outcome(Offspring(Hunted(t), o), FALSE, "none") :
                          o \in Elems(empty_neighbors)}
                 ELSE {})
                : t \in Elems(prey_neighbors)}
        new_hunger == current_hunger + 1
        hungrier == [b EXCEPT !.ph[c] = new_hunger]
        Moved(d) ==
            [hungrier EXCEPT
                !.g = [[@ EXCEPT ![d] = PREDATOR] EXCEPT ![c] = EMPTY],
                !.ph = [[@ EXCEPT ![d] = new_hunger] EXCEPT ![c] = -1]]
        move_draw == Draw(Get(p, "predator_movement_prob",
                              DefaultPredatorMovementProb))
        NoHuntOutcomes ==
            (IF empty_neighbors = <<>> \/ FALSE \in move_draw
             THEN {Outcome(hungrier, FALSE, "none")} ELSE {})
            \cup
            (IF TRUE \in move_draw
             THEN {Outcome(Moved(d), FALSE, "none") : d \in Elems(empty_neighbors)}
             ELSE {})
        hunt_draw == HuntDraw(Get(p, "hunt_success_prob", DefaultHuntSuccessProb),
                              current_hunger, hunger_threshold)
        death_draw == Draw(Get(p, "predator_death_chance",
                               DefaultPredatorDeathChance))
    IN  IF IllTyped(p, "predator_death_chance")
        THEN {Outcome(b, TRUE, "none")}    \* TypeError: float < str
        ELSE
        (IF TRUE \in death_draw THEN {died} ELSE {})
        \cup
        (IF FALSE \in death_draw
         THEN IF IllTyped(p, "predator_starvation_steps")
              THEN {Outcome(b, TRUE, "none")}    \* TypeError: int >= str
              ELSE IF Starved(current_hunger, hunger_threshold) THEN {died}
              ELSE (IF prey_neighbors # <<>> /\ TRUE \in hunt_draw
                    THEN HuntOutcomes ELSE {})
                   \cup
                   (IF prey_neighbors = <<>> \/ FALSE \in hunt_draw
                    THEN NoHuntOutcomes ELSE {})
         ELSE {})

\* Simulation._update_prey
update_prey(p, size, g, yh, b, c) ==
    LET current_hunger == yh[c]
        hunger_threshold ==
            Get(p, "prey_starvation_steps", DefaultPreyStarvationSteps)
        died == Outcome([b EXCEPT !.g[c] = EMPTY], FALSE, "none")
        neighbors == nearby_cells(p, size, c, 1)
        predator_nearby == \E n \in Elems(neighbors) : g[n] = PREDATOR
        new_hunger == current_hunger + 1
        hungrier == [b EXCEPT !.yh[c] = new_hunger]
        substrate_neighbors == SelectSeq(neighbors, LAMBDA n : g[n] = SUBSTRATE)
        empty_neighbors == SelectSeq(neighbors, LAMBDA n : g[n] = EMPTY)
        Ate(s) == [hungrier EXCEPT !.g[s] = EMPTY, !.yh[c] = 0]
        Offspring(a, o) == [a EXCEPT !.g[o] = PREY, !.yh[o] = 0]
        repro_draw == Draw(Get(p, "prey_reproduction_chance",
                               DefaultPreyReproductionChance))
        EatOutcomes ==
            UNION {
                (IF FALSE \in repro_draw \/ empty_neighbors = <<>>
                 THEN {Outcome(Ate(s), FALSE, "none")} ELSE {})
                \cup
                (IF TRUE \in repro_draw
                 THEN {Outcome(Offspring(Ate(s), o), FALSE, "none") :
                          o \in Elems(empty_neighbors)}
                 ELSE {})
                : s \in Elems(substrate_neighbors)}
        Moved(d) ==
            [hungrier EXCEPT
                !.g = [[@ EXCEPT ![d] = PREY] EXCEPT ![c] = EMPTY],
                !.yh = [[@ EXCEPT ![d] = new_hunger] EXCEPT ![c] = -1]]
        Active ==
            IF substrate_neighbors # <<>> THEN EatOutcomes
            ELSE IF empty_neighbors # <<>>
            THEN {Outcome(Moved(d), FALSE, "none") : d \in Elems(empty_neighbors)}
            ELSE {Outcome(hungrier, FALSE, "none")}
        freeze_draw == Draw(PreyFreezeChance)
        death_draw == Draw(Get(p, "prey_death_chance", DefaultPreyDeathChance))
    IN  IF IllTyped(p, "prey_death_chance")
        THEN {Outcome(b, TRUE, "none")}    \* TypeError: float < str
        ELSE
        (IF TRUE \in death_draw THEN {died} ELSE {})
        \cup
        (IF FALSE \in death_draw
         THEN IF IllTyped(p, "prey_starvation_steps")
              THEN {Outcome(b, TRUE, "none")}    \* TypeError: int >= str
              ELSE IF Starved(current_hunger, hunger_threshold) THEN {died}
              ELSE (IF predator_nearby /\ TRUE \in freeze_draw
                    THEN {Outcome(hungrier, FALSE, "none")} ELSE {})
                   \cup
                   (IF ~predator_nearby \/ FALSE \in freeze_draw
                    THEN Active ELSE {})
         ELSE {})

\* Simulation._update_substrate
update_substrate_unset(p, b, c) ==
    IF "substrate_random_death" \notin DOMAIN p
    THEN {Outcome(b, TRUE, "none")}
    ELSE {Outcome(IF die THEN [b EXCEPT !.g[c] = -1] ELSE b, FALSE, "none") :
             die \in Draw(p["substrate_random_death"])}

update_substrate(p, b, c) ==
    IF "substrate_random_death" \notin DOMAIN p
    THEN {Outcome(b, TRUE, "none")}              \* KeyError
    ELSE {Outcome(IF die THEN [b EXCEPT !.g[c] = EMPTY] ELSE b, FALSE, "none") :
             die \in Draw(p["substrate_random_death"])}

\* Simulation._update_empty
update_empty(p, size, g, b, c) ==
    IF ~({"neighborhood_type", "grid_type"} \subseteq DOMAIN p)
    THEN {Outcome(b, TRUE, "none")}              \* KeyError
    ELSE
    LET predator_neighbors ==
            count_neighbors(g, size, c, PREDATOR,
                            p["neighborhood_type"], p["grid_type"])
        prey_neighbors ==
            count_neighbors(g, size, c, PREY,
                            p["neighborhood_type"], p["grid_type"])
        can_breed == predator_neighbors >= 2 /\ prey_neighbors >= 1
        born == Outcome([b EXCEPT !.g[c] = PREDATOR, !.ph[c] = 0],
                        FALSE, "predator_births")
        Regrowth ==
            IF "initial_substrate_probability" \notin DOMAIN p
            THEN {Outcome(b, TRUE, "none")}      \* KeyError
            ELSE {IF grow THEN Outcome([b EXCEPT !.g[c] = SUBSTRATE],
                                       FALSE, "substrate_created")
                          ELSE Outcome(b, FALSE, "none") :
                     \* random.random() < p / 10
                     grow \in IF p["initial_substrate_probability"] <= 0
                              THEN {FALSE}
                              ELSE IF p["initial_substrate_probability"]
                                        >= 10 * ProbDen
                                   THEN {TRUE} ELSE BOOLEAN}
    IN  IF ~can_breed THEN Regrowth
        ELSE IF "predator_birth_probability" \notin DOMAIN p
        THEN {Outcome(b, TRUE, "none")}          \* KeyError
        ELSE (IF TRUE \in Draw(p["predator_birth_probability"])
              THEN {born} ELSE {})
             \cup
             (IF FALSE \in Draw(p["predator_birth_probability"])
              THEN Regrowth ELSE {})

(* ============================ the state machine ============================ *)

VARIABLES
    pc,                 \* "request", "raised", "initialized", "idle", "sweep"
    req,                \* the arguments of initialize_grid
    result,             \* what initialize_grid returned (or that it raised)
    params,             \* Simulation.params
    recording_enabled,  \* Simulation.recording_enabled
    grid,               \* Simulation.grid
    predator_hunger,    \* Simulation.predator_hunger
    prey_hunger,        \* Simulation.prey_hunger
    stats,              \* Simulation.stats: the historical series
    statistics,         \* Simulation.statistics: the event counters
    recorded_frames,    \* Simulation.recorded_frames
    new,                \* step's new_grid, new_predator_hunger, new_prey_hunger
    coords,             \* step's shuffled coordinates not yet visited
    total_steps,        \* generations the driver of the session asks for
    current_step,       \* main: sim_data["current_step"]
    status,             \* main: sim_data["status"] ("none" before the session)
    alloc_fails,        \* environment: the buffer allocation of step raises
    faulted,            \* cells whose rule raised in the current sweep
    last_statistics,    \* what get_statistics returned since the last step
    store,              \* the recordings directory: id -> the two artifacts
    clock,              \* environment: datetime.now()
    reply               \* the response of the last recordings operation

vars == <<pc, req, result, params, recording_enabled, grid, predator_hunger,
          prey_hunger, stats, statistics, recorded_frames, new, coords,
          total_steps, current_step, status, alloc_fails, faulted,
          last_statistics, store, clock, reply>>

\* the recordings directory and what the session's driver last got from it
recvars == <<store, clock, reply>>

simvars == <<params, recording_enabled, grid, predator_hunger, prey_hunger,
             stats, statistics, recorded_frames, new, coords, total_steps,
             current_step, status, alloc_fails, faulted, last_statistics,
             recvars>>

\* no value (Python's None)
None == [none |-> TRUE]

\* no call on the recordings directory since the last step
NoReply == [op |-> "none", id |-> "", status |-> ""]

NoBuffers == [g |-> EmptyDict, ph |-> EmptyDict, yh |-> EmptyDict]
NoResult == [raised |-> FALSE, size |-> 0]

Request(size, prey, pred, prob) ==
    [size |-> size, initial_prey |-> prey, initial_predators |-> pred,
     initial_substrate_prob |-> prob]

\* the side of the committed grid
Size == result.size

\* the recordings the model names, and the empty recordings directory
RecordingIds == {"a", "b"}
Absent == [absent |-> TRUE]
EmptyStore == [id \in RecordingIds |-> [metadata |-> Absent, frames |-> Absent]]

\* settings.dict() of main.start_simulation: the keys of SimulationSettings
\* the engine or the claims read
SettingsDict(r, neighborhood_type, grid_type, starve_pred, starve_prey, death_pred, birth_pred, death_substrate) ==
    [k \in {"grid_size", "neighborhood_type", "grid_type",
            "predator_death_probability", "predator_birth_probability",
            "initial_predators", "predator_starvation_steps",
            "initial_prey", "prey_starvation_steps",
            "initial_substrate_probability", "substrate_random_death"} |->
        CASE k = "grid_size" -> r.size.v
          [] k = "neighborhood_type" -> neighborhood_type
          [] k = "grid_type" -> grid_type
          [] k = "predator_death_probability" -> death_pred
          [] k = "predator_birth_probability" -> birth_pred
          [] k = "initial_predators" -> r.initial_predators.v
          [] k = "predator_starvation_steps" -> starve_pred
          [] k = "initial_prey" -> r.initial_prey.v
          [] k = "prey_starvation_steps" -> starve_prey
          [] k = "initial_substrate_probability" -> r.initial_substrate_prob.v
          [] k = "substrate_random_death" -> death_substrate]

\* the event counters of Simulation.__init__
NoEvents ==
    [predator_deaths |-> 0, predator_births |-> 0, predator_starved |-> 0,
     prey_deaths |-> 0, prey_births |-> 0, prey_hunted |-> 0,
     prey_starved |-> 0, substrate_created |-> 0, substrate_consumed |-> 0]

Unstarted ==
    /\ result = NoResult
    /\ grid = EmptyDict
    /\ predator_hunger = EmptyDict
    /\ prey_hunger = EmptyDict
    /\ stats = [predator_count |-> <<>>, prey_count |-> <<>>,
                substrate_count |-> <<>>]
    /\ statistics = NoEvents
    /\ recorded_frames = <<>>
    /\ new = NoBuffers
    /\ coords = {}
    /\ current_step = 0
    /\ status = "none"
    /\ faulted = {}
    /\ last_statistics = None
    /\ clock = 0
    /\ reply = NoReply

\* the call of initialize_grid (main.start_simulation, or a direct call)
Initialize ==
    /\ pc = "request"
    /\ \E perm \in (IF ValidRequest(req) THEN InitShuffles(req.size.v) ELSE {<<>>}) :
          result' = initialize_grid(req, perm)
    /\ pc' = IF result'.raised THEN "raised" ELSE "initialized"
    /\ UNCHANGED <<req, simvars>>

(* ---- Simulation.get_statistics ---- *)

\* round(n / d, 0) of Python: to the nearest integer, a tie to the even one
RoundHalfEven(n, d) ==
    LET q == n \div d
        r == n % d
    IN  IF 2 * r > d \/ (2 * r = d /\ q % 2 = 1) THEN q + 1 ELSE q

\* round((count / total_cells) * 100, 2), in hundredths of a percent (the
\* float result is this quotient for every grid side up to 39)
Percentage(count, total_cells) == RoundHalfEven(count * 100 * 100, total_cells)

\* int(threshold * 0.8)
RiskThreshold(threshold) == (threshold * 8) \div 10

\* the default get_statistics gives to 'prey_starvation_steps'
StatisticsPreyStarvationSteps == 3

\* the object get_statistics reads
SelfOf(g, ph, yh, series, events, frames) ==
    [grid |-> g, predator_hunger |-> ph, prey_hunger |-> yh, stats |-> series,
     statistics |-> events, recorded_frames |-> frames, params |-> params,
     adjustment_info |-> result.adjustment_info]

Self ==
    SelfOf(grid, predator_hunger, prey_hunger, stats, statistics, recorded_frames)

\* the dict get_statistics builds from the counts
StatisticsDict(self, count, total_cells, starving_predators, starving_prey) ==
    LET has_series == Len(self.stats.predator_count) > 0
        last == Len(self.stats.predator_count)
        base ==
            [predator_count |-> IF has_series THEN self.stats.predator_count[last]
                                ELSE count[PREDATOR],
             prey_count |-> IF has_series THEN self.stats.prey_count[last]
                            ELSE count[PREY],
             substrate_count |-> IF has_series THEN self.stats.substrate_count[last]
                                 ELSE count[SUBSTRATE],
             empty_count |-> count[EMPTY],
             predator_percentage |-> Percentage(count[PREDATOR], total_cells),
             prey_percentage |-> Percentage(count[PREY], total_cells),
             substrate_percentage |-> Percentage(count[SUBSTRATE], total_cells),
             empty_percentage |-> Percentage(count[EMPTY], total_cells),
             starving_predators |-> starving_predators,
             starving_prey |-> starving_prey]
        info == self.adjustment_info
    IN  IF info.values_adjusted
        THEN base @@ [values_adjusted |-> TRUE,
                      original_values |-> info.original_values,
                      adjusted_values |-> info.adjusted_values,
                      adjustment_reason |-> info.reason]
        ELSE base

\* the dict Simulation.get_statistics() returns
statistics_output(self) ==
    LET p == self.params
        g == self.grid
        predator_risk_threshold ==
            RiskThreshold(Get(p, "predator_starvation_steps",
                              DefaultPredatorStarvationSteps))
        prey_risk_threshold ==
            RiskThreshold(Get(p, "prey_starvation_steps",
                              StatisticsPreyStarvationSteps))
        counted == [kind \in Kinds |-> CountKind(g, kind)]
        starving_predators ==
            Cardinality({c \in DOMAIN g :
                self.predator_hunger[c] >= predator_risk_threshold
                /\ g[c] = PREDATOR})
        starving_prey ==
            Cardinality({c \in DOMAIN g :
                self.prey_hunger[c] >= prey_risk_threshold /\ g[c] = PREY})
        failed == IllTyped(p, "predator_starvation_steps")
                    \/ IllTyped(p, "prey_starvation_steps")
    IN  IF failed    \* "Error counting cells": the safe defaults
        THEN StatisticsDict(self, [kind \in Kinds |-> 0], 1, 0, 0)
        ELSE StatisticsDict(self, counted, Cardinality(DOMAIN g),
                            starving_predators, starving_prey)

\* a mutation of get_statistics that also refreshes the series
get_statistics_refreshing(self) ==
    [out |-> statistics_output(self),
     self |-> [self EXCEPT !.stats =
                  [predator_count |-> Append(@.predator_count,
                                             CountKind(self.grid, PREDATOR)),
                   prey_count |-> Append(@.prey_count,
                                         CountKind(self.grid, PREY)),
                   substrate_count |-> Append(@.substrate_count,
                                              CountKind(self.grid, SUBSTRATE))]]]

\* Simulation.get_statistics(): the dict it returns and the object it leaves
get_statistics(self) == [out |-> statistics_output(self), self |-> self]

\* the counts a frame or a series entry stores
FrameCounts(g) ==
    [predator_count |-> CountKind(g, PREDATOR), prey_count |-> CountKind(g, PREY),
     substrate_count |-> CountKind(g, SUBSTRATE), empty_count |-> CountKind(g, EMPTY)]

\* Simulation.__init__(grid, params, recording_enabled, adjustment_info)
Construct ==
    /\ pc = "initialized"
    /\ result.explicit
    /\ grid' = result.grid
    /\ recorded_frames' =
          IF recording_enabled
          THEN <<[has_grid |-> TRUE, grid |-> result.grid, step |-> 0,
                  statistics |-> FrameCounts(result.grid)]>>
          ELSE <<>>
    /\ stats' = [predator_count |-> <<CountKind(result.grid, PREDATOR)>>,
                 prey_count |-> <<CountKind(result.grid, PREY)>>,
                 substrate_count |-> <<CountKind(result.grid, SUBSTRATE)>>]
    /\ statistics' = NoEvents
    /\ predator_hunger' =
          [c \in DOMAIN result.grid |->
              IF result.grid[c] = PREDATOR THEN 0 ELSE -1]
    /\ prey_hunger' =
          [c \in DOMAIN result.grid |-> IF result.grid[c] = PREY THEN 0 ELSE -1]
    /\ current_step' = 0
    /\ status' = "running"
    \* main.start_simulation: statistics = simulation.get_statistics()
    /\ last_statistics' =
          get_statistics(SelfOf(grid', predator_hunger', prey_hunger', stats',
                                statistics', recorded_frames')).out
    /\ pc' = "idle"
    /\ UNCHANGED <<req, result, params, recording_enabled, new, coords,
                   total_steps, alloc_fails, faulted, recvars>>

\* main.get_simulation_status: a call of get_statistics between two steps
GetStatistics ==
    /\ pc = "idle"
    /\ LET r == get_statistics(Self)
       IN  /\ last_statistics' = r.out
           /\ grid' = r.self.grid
           /\ predator_hunger' = r.self.predator_hunger
           /\ prey_hunger' = r.self.prey_hunger
           /\ stats' = r.self.stats
           /\ statistics' = r.self.statistics
           /\ recorded_frames' = r.self.recorded_frames
    /\ UNCHANGED <<pc, req, result, params, recording_enabled, new, coords,
                   total_steps, current_step, status, alloc_fails, faulted,
                   recvars>>

\* Simulation.__init__(grid, params, recording_enabled) on a grid of more than
\* MaxExplicitSize rows, which the model holds by its counts: the frame of
\* generation 0 is built as for any other grid, 'grid' being the whole grid
ConstructLarge ==
    /\ pc = "initialized"
    /\ ~result.explicit
    /\ grid' = EmptyDict
    /\ recorded_frames' =
          IF recording_enabled
          THEN <<[has_grid |-> TRUE, grid |-> EmptyDict, step |-> 0,
                  statistics |-> [predator_count |-> result.counts.predator,
                                  prey_count |-> result.counts.prey,
                                  substrate_count |-> result.counts.substrate,
                                  empty_count |-> result.counts.empty]]>>
          ELSE <<>>
    /\ stats' = [predator_count |-> <<result.counts.predator>>,
                 prey_count |-> <<result.counts.prey>>,
                 substrate_count |-> <<result.counts.substrate>>]
    /\ statistics' = NoEvents
    /\ predator_hunger' = EmptyDict
    /\ prey_hunger' = EmptyDict
    /\ pc' = "idle"
    /\ UNCHANGED <<req, result, params, recording_enabled, new, coords,
                   total_steps, current_step, status, alloc_fails, faulted,
                   last_statistics, recvars>>

(* ---- the recordings directory ---- *)

\* a file json.dump wrote to the end, and one whose write failed on the way
\* (open(path, 'w') has truncated the file, json.dump raised before the end)
Written(value) == [complete |-> TRUE, json |-> value]
CutShort(value) == [complete |-> FALSE, json |-> value]

\* os.path.exists(path)
Exists(file) == file # Absent

\* json.load(f) returns the value of a file written to the end and raises on
\* any other
Loads(file) == Exists(file) /\ file.complete

\* how far a call of save_recording gets before an OSError, if any
SaveOutcomes ==
    {"saved", "metadata_open", "metadata_dump", "frames_open", "frames_dump"}

\* a mutation of Metadata that counts the generations after generation 0
MetadataCountingSteps(self, simulation_id, now) ==
    [simulation_id |-> simulation_id,
     created_at |-> now,
     grid_size |-> Size,
     frame_count |-> Len(self.recorded_frames) - 1,
     parameters |-> self.params,
     final_statistics |-> get_statistics(self).out]

\* the metadata save_recording builds
Metadata(self, simulation_id, now) ==
    [simulation_id |-> simulation_id,
     created_at |-> now,
     grid_size |-> Size,
     frame_count |-> Len(self.recorded_frames),
     parameters |-> self.params,
     final_statistics |-> get_statistics(self).out]

\* Simulation.save_recording(simulation_id), called by
\* main.save_simulation_recording: the directory and the reply it leaves
save_recording(self, enabled, simulation_id, dir, now, outcome) ==
    LET metadata == Metadata(self, simulation_id, now)
        old == dir[simulation_id]
        failed(files) ==
            [dir |-> [dir EXCEPT ![simulation_id] = files],
             reply |-> [op |-> "save", id |-> simulation_id, status |-> "error"]]
    IN  IF ~enabled \/ self.recorded_frames = <<>>
        THEN failed(old)                      \* "No recording available"
        ELSE IF outcome = "metadata_open"
        THEN failed(old)
        ELSE IF outcome = "metadata_dump"
        THEN failed([old EXCEPT !.metadata = CutShort(metadata)])
        ELSE IF outcome = "frames_open"
        THEN failed([old EXCEPT !.metadata = Written(metadata)])
        ELSE IF outcome = "frames_dump"
        THEN failed([metadata |-> Written(metadata),
                     frames |-> CutShort(self.recorded_frames)])
        ELSE [dir |-> [dir EXCEPT ![simulation_id] =
                          [metadata |-> Written(metadata),
                           frames |-> Written(self.recorded_frames)]],
              reply |-> [op |-> "save", id |-> simulation_id,
                         status |-> "success", recording_id |-> simulation_id,
                         frame_count |-> Len(self.recorded_frames)]]

\* Simulation.load_recording(simulation_id)
load_recording(dir, simulation_id) ==
    LET files == dir[simulation_id]
        error == [op |-> "load", id |-> simulation_id, status |-> "error"]
    IN  IF ~Exists(files.metadata) THEN error           \* "... not found"
        ELSE IF ~Loads(files.metadata) THEN error       \* json.load raises
        ELSE IF ~Exists(files.frames) THEN error        \* "Frames ... not found"
        ELSE IF ~Loads(files.frames) THEN error         \* json.load raises
        ELSE [op |-> "load", id |-> simulation_id, status |-> "success",
              metadata |-> files.metadata.json, frames |-> files.frames.json]

\* sorted(recordings, key=created_at, reverse=True)
RECURSIVE SortedNewestFirst(_)
SortedNewestFirst(recordings) ==
    IF recordings = {} THEN <<>>
    ELSE LET newest == CHOOSE r \in recordings :
                          \A o \in recordings : o.created_at <= r.created_at
         IN  <<newest>> \o SortedNewestFirst(recordings \ {newest})

\* get_available_recordings: whether the metadata file called name gives an
\* entry of the list
Listed(dir, name) ==
    /\ Loads(dir[name].metadata)
    /\ Exists(dir[dir[name].metadata.json.simulation_id].frames)

\* Simulation.get_available_recordings()
get_available_recordings(dir) ==
    SortedNewestFirst(
        {[simulation_id |-> dir[name].metadata.json.simulation_id,
          created_at |-> dir[name].metadata.json.created_at,
          grid_size |-> dir[name].metadata.json.grid_size,
          frame_count |-> dir[name].metadata.json.frame_count,
          parameters |-> dir[name].metadata.json.parameters,
          final_statistics |-> dir[name].metadata.json.final_statistics] :
            name \in {n \in DOMAIN dir : Listed(dir, n)}})

\* a mutation of delete_recording that removes the metadata file only
delete_metadata_only(dir, recording_id) ==
    LET files == dir[recording_id]
        files_deleted == IF Exists(files.metadata) THEN 1 ELSE 0
    IN  [dir |-> [dir EXCEPT ![recording_id].metadata = Absent],
         reply |-> IF files_deleted > 0
                   THEN [op |-> "delete", id |-> recording_id,
                         status |-> "success", files_deleted |-> files_deleted]
                   ELSE [op |-> "delete", id |-> recording_id,
                         status |-> "error"]]

\* main.delete_recording(recording_id)
delete_recording(dir, recording_id) ==
    LET files == dir[recording_id]
        files_deleted == (IF Exists(files.metadata) THEN 1 ELSE 0)
                           + (IF Exists(files.frames) THEN 1 ELSE 0)
    IN  [dir |-> [dir EXCEPT ![recording_id] =
                     [metadata |-> Absent, frames |-> Absent]],
         reply |-> IF files_deleted > 0
                   THEN [op |-> "delete", id |-> recording_id,
                         status |-> "success", files_deleted |-> files_deleted]
                   ELSE [op |-> "delete", id |-> recording_id,
                         status |-> "error"]]     \* "... not found"

\* the id of the session: main saves a recording under the simulation's id
SessionId == "a"

\* largest number of calls on the recordings directory in one behaviour
MaxClock == 3

\* the state a call on the recordings directory leaves outside the directory
RecordingsCall ==
    /\ pc = "idle"
    /\ clock < MaxClock
    /\ clock' = clock + 1
    /\ UNCHANGED <<pc, req, result, params, recording_enabled, grid,
                   predator_hunger, prey_hunger, stats, statistics,
                   recorded_frames, new, coords, total_steps, current_step,
                   status, alloc_fails, faulted, last_statistics>>

\* main.save_simulation_recording(simulation_id)
SaveRecording ==
    /\ RecordingsCall
    /\ \E outcome \in SaveOutcomes :
          LET r == save_recording(Self, recording_enabled, SessionId, store,
                                  clock + 1, outcome)
          IN  store' = r.dir /\ reply' = r.reply

\* main.get_recording(recording_id)
LoadRecording ==
    /\ RecordingsCall
    /\ \E id \in RecordingIds : reply' = load_recording(store, id)
    /\ UNCHANGED store

\* main.list_recordings()
ListRecordings ==
    /\ RecordingsCall
    /\ reply' = [op |-> "list", id |-> "", status |-> "success",
                 recordings |-> get_available_recordings(store)]
    /\ UNCHANGED store

\* main.delete_recording(recording_id)
DeleteRecording ==
    /\ RecordingsCall
    /\ \E id \in RecordingIds :
          LET r == delete_recording(store, id)
          IN  store' = r.dir /\ reply' = r.reply

\* number of completed generations
Gen == Len(stats.predator_count) - 1

\* random.shuffle(coords), drawn as the loop consumes it: the next coordinate
\* of a uniformly shuffled list is any of those not yet visited.  For grids of
\* more than MaxFullShuffle cells the draw is either end of the row-major order.
RowMajor(c, size) == c[1] * size + c[2]

NextCoords(rest, size) ==
    IF size * size <= MaxFullShuffle THEN rest
    ELSE {c \in rest :
             \/ \A d \in rest : RowMajor(c, size) <= RowMajor(d, size)
             \/ \A e \in rest : RowMajor(c, size) >= RowMajor(e, size)}

\* Simulation.step, up to the start of the sweep: the buffers and the order
StepBegin ==
    /\ pc = "idle"
    /\ status # "completed"
    /\ current_step < total_steps
    /\ ~alloc_fails
    /\ new' = [g |-> grid,
               ph |-> [c \in DOMAIN grid |-> -1],
               yh |-> [c \in DOMAIN grid |-> -1]]
    /\ coords' = Coords(Size)
    /\ faulted' = {}
    /\ reply' = NoReply
    /\ pc' = "sweep"
    /\ UNCHANGED <<req, result, params, recording_enabled, grid, predator_hunger,
                   prey_hunger, stats, statistics, recorded_frames, total_steps,
                   current_step, status, alloc_fails, last_statistics, store,
                   clock>>

\* a mutation of CellOutcomes whose rules read the buffer being written
CellOutcomesFromBuffer(c) ==
    IF grid[c] = PREDATOR
    THEN update_predator(params, Size, new.g, predator_hunger, new, c)
    ELSE IF grid[c] = PREY
    THEN update_prey(params, Size, new.g, prey_hunger, new, c)
    ELSE IF grid[c] = SUBSTRATE
    THEN update_substrate(params, new, c)
    ELSE update_empty(params, Size, new.g, new, c)

\* the outcomes of the rule of cell c, by the kind of self.grid[c]
CellOutcomes(c) ==
    IF grid[c] = PREDATOR
    THEN update_predator(params, Size, grid, predator_hunger, new, c)
    ELSE IF grid[c] = PREY
    THEN update_prey(params, Size, grid, prey_hunger, new, c)
    ELSE IF grid[c] = SUBSTRATE
    THEN update_substrate(params, new, c)
    ELSE update_empty(params, Size, grid, new, c)

\* the except branch of the loop body: new_grid[x, y] = self.grid[x, y]
Recovered(b, c) == [b EXCEPT !.g[c] = grid[c]]

\* one iteration of the loop of Simulation.step over the shuffled coordinates
ProcessCell ==
    /\ pc = "sweep"
    /\ coords # {}
    /\ \E c \in NextCoords(coords, Size) :
          /\ IF new.g[c] # grid[c]
             THEN UNCHANGED <<new, statistics, faulted>>    \* already updated
             ELSE \E o \in CellOutcomes(c) :
                    /\ new' = IF o.raised THEN Recovered(o.b, c) ELSE o.b
                    /\ faulted' = IF o.raised THEN faulted \cup {c} ELSE faulted
                    /\ statistics' =
                          IF o.ev = "none" THEN statistics
                          ELSE [statistics EXCEPT ![o.ev] = @ + 1]
          /\ coords' = coords \ {c}
    /\ UNCHANGED <<pc, req, result, params, recording_enabled, grid,
                   predator_hunger, prey_hunger, stats, recorded_frames,
                   total_steps, current_step, status, alloc_fails,
                   last_statistics, recvars>>

\* grid sides above which a recorded frame omits the grid
LargeFrameSize == 500

\* a mutation of Frame that numbers the frames by the generation before
FrameOfLastStep(g, grid_size, current_step_num) ==
    [has_grid |-> ~(grid_size > LargeFrameSize),
     grid |-> IF grid_size > LargeFrameSize THEN EmptyDict ELSE g,
     step |-> IF current_step_num > 0 THEN current_step_num - 1 ELSE 0,
     statistics |-> FrameCounts(g)]

\* the frame Simulation.step records: the grid only up to LargeFrameSize
Frame(g, grid_size, current_step_num) ==
    [has_grid |-> ~(grid_size > LargeFrameSize),
     grid |-> IF grid_size > LargeFrameSize THEN EmptyDict ELSE g,
     step |-> current_step_num,
     statistics |->
        [predator_count |-> CountKind(g, PREDATOR),
         prey_count |-> CountKind(g, PREY),
         substrate_count |-> CountKind(g, SUBSTRATE),
         empty_count |-> grid_size * grid_size - (CountKind(g, PREDATOR)
             + CountKind(g, PREY) + CountKind(g, SUBSTRATE))]]

\* a mutation of AppendCounts that overwrites the newest entry
OverwriteCounts(series, g) ==
    [predator_count |-> [series.predator_count EXCEPT
                            ![Len(series.predator_count)] = CountKind(g, PREDATOR)],
     prey_count |-> [series.prey_count EXCEPT
                        ![Len(series.prey_count)] = CountKind(g, PREY)],
     substrate_count |-> [series.substrate_count EXCEPT
                             ![Len(series.substrate_count)] = CountKind(g, SUBSTRATE)]]

\* self.stats[...].append(np.count_nonzero(self.grid == kind))
AppendCounts(series, g) ==
    [predator_count |-> Append(series.predator_count, CountKind(g, PREDATOR)),
     prey_count |-> Append(series.prey_count, CountKind(g, PREY)),
     substrate_count |-> Append(series.substrate_count, CountKind(g, SUBSTRATE))]

\* the end of Simulation.step: the buffers replace the committed state, the
\* series grow by one entry and a frame is recorded
StepCommit ==
    /\ pc = "sweep"
    /\ coords = {}
    /\ grid' = new.g
    /\ predator_hunger' = new.ph
    /\ prey_hunger' = new.yh
    /\ stats' = AppendCounts(stats, new.g)
    /\ recorded_frames' =
          IF recording_enabled
          THEN Append(recorded_frames, Frame(new.g, Size, Len(recorded_frames)))
          ELSE recorded_frames
    /\ new' = NoBuffers
    /\ coords' = {}
    /\ current_step' = current_step + 1
    /\ status' = IF current_step + 1 >= total_steps THEN "completed" ELSE status
    \* main.step_simulation: statistics = simulation.get_statistics()
    /\ last_statistics' =
          get_statistics(SelfOf(grid', predator_hunger', prey_hunger', stats',
                                statistics, recorded_frames')).out
    /\ pc' = "idle"
    /\ UNCHANGED <<req, result, params, recording_enabled, statistics,
                   total_steps, alloc_fails, faulted, recvars>>

\* main.step_simulation when the buffers of Simulation.step cannot be
\* allocated: step raises MemoryError inside its try block, its own
\* except Exception logs it and returns self.grid, and main goes on as after
\* any step
StepAllocationFails ==
    /\ pc = "idle"
    /\ status # "completed"
    /\ current_step < total_steps
    /\ alloc_fails
    /\ current_step' = current_step + 1
    /\ status' = IF current_step + 1 >= total_steps THEN "completed" ELSE status
    /\ last_statistics' = get_statistics(Self).out
    /\ reply' = NoReply
    /\ UNCHANGED <<pc, req, result, params, recording_enabled, grid,
                   predator_hunger, prey_hunger, stats, statistics,
                   recorded_frames, new, coords, total_steps, alloc_fails,
                   faulted, store, clock>>

\* the environment: memory runs out, or is available again, between two calls
MemoryPressure ==
    /\ pc = "idle"
    /\ alloc_fails' = ~alloc_fails
    /\ UNCHANGED <<pc, req, result, params, recording_enabled, grid,
                   predator_hunger, prey_hunger, stats, statistics,
                   recorded_frames, new, coords, total_steps, current_step,
                   status, faulted, last_statistics, recvars>>

(* ---- step on a worker thread (main.step_simulation, large grids) ---- *)

\* main.step_simulation runs Simulation.step through loop.run_in_executor when
\* the grid has LargeFrameSize rows or more; the event loop serves other
\* requests while the worker runs, and goes on doing so after wait_for has
\* timed out, since the worker is not stopped.  The end of step is then four
\* steps of the worker: self.grid = new_grid
CommitGrid ==
    /\ pc = "sweep"
    /\ coords = {}
    /\ grid' = new.g
    /\ pc' = "grid_replaced"
    /\ UNCHANGED <<req, result, params, recording_enabled, predator_hunger,
                   prey_hunger, stats, statistics, recorded_frames, new, coords,
                   total_steps, current_step, status, alloc_fails, faulted,
                   last_statistics, recvars>>

\* self.predator_hunger = new_predator_hunger
CommitPredatorHunger ==
    /\ pc = "grid_replaced"
    /\ predator_hunger' = new.ph
    /\ pc' = "predator_hunger_replaced"
    /\ UNCHANGED <<req, result, params, recording_enabled, grid, prey_hunger,
                   stats, statistics, recorded_frames, new, coords, total_steps,
                   current_step, status, alloc_fails, faulted, last_statistics,
                   recvars>>

\* self.prey_hunger = new_prey_hunger
CommitPreyHunger ==
    /\ pc = "predator_hunger_replaced"
    /\ prey_hunger' = new.yh
    /\ pc' = "hunger_replaced"
    /\ UNCHANGED <<req, result, params, recording_enabled, grid,
                   predator_hunger, stats, statistics, recorded_frames, new,
                   coords, total_steps, current_step, status, alloc_fails,
                   faulted, last_statistics, recvars>>

\* the appends to the series and the frame, and main's bookkeeping once the
\* worker has returned
CommitSeries ==
    /\ pc = "hunger_replaced"
    /\ stats' = AppendCounts(stats, grid)
    /\ recorded_frames' =
          IF recording_enabled
          THEN Append(recorded_frames, Frame(grid, Size, Len(recorded_frames)))
          ELSE recorded_frames
    /\ new' = NoBuffers
    /\ current_step' = current_step + 1
    /\ status' = IF current_step + 1 >= total_steps THEN "completed" ELSE status
    /\ last_statistics' =
          get_statistics(SelfOf(grid, predator_hunger, prey_hunger, stats',
                                statistics, recorded_frames')).out
    /\ pc' = "idle"
    /\ UNCHANGED <<req, result, params, recording_enabled, grid,
                   predator_hunger, prey_hunger, statistics, coords,
                   total_steps, alloc_fails, faulted, recvars>>

\* main.get_simulation_status, served by the event loop at any moment of the
\* worker: the grid and the statistics of the response, and the hunger arrays
\* get_statistics read for it
GetSimulationStatus ==
    /\ pc \notin {"request", "initialized"}
    /\ reply' = [op |-> "status", id |-> SessionId, status |-> status,
                 current_step |-> current_step, grid |-> grid,
                 predator_hunger |-> predator_hunger,
                 prey_hunger |-> prey_hunger,
                 statistics |-> get_statistics(Self).out]
    /\ UNCHANGED <<pc, req, result, params, recording_enabled, grid,
                   predator_hunger, prey_hunger, stats, statistics,
                   recorded_frames, new, coords, total_steps, current_step,
                   status, alloc_fails, faulted, last_statistics, store, clock>>

(* ---- calls of the two neighbourhood functions ---- *)

\* largest grid side and distance of the calls
MaxNeighborSize == 4
MaxDistance == 2

\* a call of grid.get_neighbors_coords(grid, x, y, neighborhood_type,
\* grid_type) on a grid of any side, for any cell
GetNeighborsCoords ==
    /\ \E size \in 1 .. MaxNeighborSize, neighborhood_type \in {"von_neumann", "moore"}, grid_type \in {"torus", "finite"} :
          \E c \in Coords(size) :
             reply' = [op |-> "neighbors", id |-> "get_neighbors_coords",
                       status |-> "", size |-> size, c |-> c,
                       neighborhood_type |-> neighborhood_type,
                       grid_type |-> grid_type, distance |-> 1,
                       out |-> get_neighbors_coords(size, c, neighborhood_type,
                                                    grid_type)]
    /\ UNCHANGED <<pc, req, result, params, recording_enabled, grid,
                   predator_hunger, prey_hunger, stats, statistics,
                   recorded_frames, new, coords, total_steps, current_step,
                   status, alloc_fails, faulted, last_statistics, store, clock>>

\* a call of Simulation._get_nearby_cells(x, y, distance) for a simulation
\* whose params hold the two settings
GetNearbyCells ==
    /\ \E size \in 1 .. MaxNeighborSize, neighborhood_type \in {"von_neumann", "moore"}, grid_type \in {"torus", "finite"}, distance \in 1 .. MaxDistance :
          \E c \in Coords(size) :
             reply' = [op |-> "neighbors", id |-> "_get_nearby_cells",
                       status |-> "", size |-> size, c |-> c,
                       neighborhood_type |-> neighborhood_type,
                       grid_type |-> grid_type, distance |-> distance,
                       out |-> nearby_cells(
                                  [neighborhood_type |-> neighborhood_type,
                                   grid_type |-> grid_type],
                                  size, c, distance)]
    /\ UNCHANGED <<pc, req, result, params, recording_enabled, grid,
                   predator_hunger, prey_hunger, stats, statistics,
                   recorded_frames, new, coords, total_steps, current_step,
                   status, alloc_fails, faulted, last_statistics, store, clock>>

(* ---- whole requests of a session (main.step_simulation, main.websocket_endpoint) ---- *)

\* the rule Simulation.step dispatches to for cell c, by the kind of
\* self.grid[c]; g, ph, yh: the committed arrays, b: the buffers
dispatch(p, size, g, ph, yh, b, c) ==
    IF g[c] = PREDATOR THEN update_predator(p, size, g, ph, b, c)
    ELSE IF g[c] = PREY THEN update_prey(p, size, g, yh, b, c)
    ELSE IF g[c] = SUBSTRATE THEN update_substrate(p, b, c)
    ELSE update_empty(p, size, g, b, c)

\* one iteration of the loop of Simulation.step over the shuffled
\* coordinates, from x: the coordinates still to visit (x.rest) and the
\* buffers, event counters and faulted cells so far (x.a)
visit(self, size, x) ==
    UNION {
        IF x.a.b.g[c] # self.grid[c]
        THEN {[a |-> x.a, rest |-> x.rest \ {c}]}        \* already updated
        ELSE {[a |-> [b |-> IF o.raised THEN [o.b EXCEPT !.g[c] = self.grid[c]]
                            ELSE o.b,
                      statistics |-> IF o.ev = "none" THEN x.a.statistics
                                     ELSE [x.a.statistics EXCEPT ![o.ev] = @ + 1],
                      faulted |-> IF o.raised THEN x.a.faulted \cup {c}
                                  ELSE x.a.faulted],
               rest |-> x.rest \ {c}] :
              o \in dispatch(self.params, size, self.grid, self.predator_hunger,
                             self.prey_hunger, x.a.b, c)} :
        c \in NextCoords(x.rest, size)}

\* the loop of Simulation.step run to its end from each member of frontier:
\* every result the shuffle and the draws can produce
RECURSIVE sweep(_, _, _)
sweep(self, size, frontier) ==
    UNION {IF \A x \in F : x.rest = {} THEN {x.a : x \in F}
           ELSE sweep(self, size,
                      UNION {IF x.rest = {} THEN {x} ELSE visit(self, size, x) :
                             x \in F}) :
           F \in {frontier}}                 \* the frontier, evaluated once

\* np.ones(self.grid.shape, dtype=int) * -1
MinusOnes(g) == CHOOSE h \in [DOMAIN g -> {-1}] : TRUE

\* Simulation.step() as one call: the objects it can leave, with the cells
\* whose rule raised.  When the buffers cannot be allocated the method logs
\* the error and returns with the object unchanged.
step(self, size, recording, fails) ==
    IF fails THEN {[self |-> self, faulted |-> {}]}
    ELSE {[self |-> [self EXCEPT
                        !.grid = a.b.g,
                        !.predator_hunger = a.b.ph,
                        !.prey_hunger = a.b.yh,
                        !.stats = AppendCounts(self.stats, a.b.g),
                        !.statistics = a.statistics,
                        !.recorded_frames =
                            IF recording
                            THEN Append(@, Frame(a.b.g, size, Len(@)))
                            ELSE @],
            faulted |-> a.faulted] :
          a \in sweep(self, size,
                      {[a |-> [b |-> [g |-> self.grid,
                                      ph |-> MinusOnes(self.grid),
                                      yh |-> MinusOnes(self.grid)],
                               statistics |-> self.statistics,
                               faulted |-> {}],
                        rest |-> Coords(size)]})}

\* the session entry sim_data and its simulation, as a request finds them
SimData ==
    [self |-> Self, faulted |-> faulted, current_step |-> current_step,
     status |-> status, steps_run |-> 0, broke |-> FALSE]

\* a mutation of http_iteration that leaves the counter of the session alone
http_iteration_uncounted(d) ==
    IF d.broke \/ ~(d.current_step < total_steps) THEN {d}
    ELSE {[self |-> s.self, faulted |-> s.faulted,
           current_step |-> d.current_step,
           status |-> d.status,
           steps_run |-> d.steps_run + 1,
           broke |-> FALSE] :
          s \in step(d.self, Size, recording_enabled, alloc_fails)}

\* a mutation of http_iteration that computes a generation in every
\* iteration, whatever the counter
http_iteration_unguarded(d) ==
    IF d.broke THEN {d}
    ELSE {[self |-> s.self, faulted |-> s.faulted,
           current_step |-> d.current_step + 1,
           status |-> IF d.current_step + 1 >= total_steps
                      THEN "completed" ELSE d.status,
           steps_run |-> d.steps_run + 1,
           broke |-> d.current_step + 1 >= total_steps] :
          s \in step(d.self, Size, recording_enabled, alloc_fails)}

\* one iteration of for i in range(steps) of main.step_simulation: a
\* generation while current_step < total_steps, the break once the count
\* reaches total_steps
http_iteration(d) ==
    IF d.broke \/ ~(d.current_step < total_steps) THEN {d}
    ELSE {[self |-> s.self, faulted |-> s.faulted,
           current_step |-> d.current_step + 1,
           status |-> IF d.current_step + 1 >= total_steps
                      THEN "completed" ELSE d.status,
           steps_run |-> d.steps_run + 1,
           broke |-> d.current_step + 1 >= total_steps] :
          s \in step(d.self, Size, recording_enabled, alloc_fails)}

\* one iteration of for i in range(steps) of the WebSocket 'step' command
ws_iteration(d) ==
    IF d.broke THEN {d}
    ELSE IF d.current_step < total_steps
    THEN {[self |-> s.self, faulted |-> s.faulted,
           current_step |-> d.current_step + 1,
           status |-> d.status,
           steps_run |-> d.steps_run + 1,
           broke |-> FALSE] :
          s \in step(d.self, Size, recording_enabled, alloc_fails)}
    ELSE {[d EXCEPT !.status = "completed", !.broke = TRUE]}

\* the n iterations of the loop of main.step_simulation, from each member of
\* sessions
RECURSIVE http_loop(_, _)
http_loop(sessions, n) ==
    IF n <= 0 THEN sessions
    ELSE http_loop(UNION {http_iteration(d) : d \in sessions}, n - 1)

\* the n iterations of the loop of the WebSocket 'step' command
RECURSIVE ws_loop(_, _)
ws_loop(sessions, n) ==
    IF n <= 0 THEN sessions
    ELSE ws_loop(UNION {ws_iteration(d) : d \in sessions}, n - 1)

\* if sim_data["current_step"] >= sim_data["total_steps"]: status = "completed"
MarkCompleted(d) ==
    IF d.current_step >= total_steps THEN [d EXCEPT !.status = "completed"]
    ELSE d

\* the session and its simulation as the request leaves them
Install(d) ==
    /\ grid' = d.self.grid
    /\ predator_hunger' = d.self.predator_hunger
    /\ prey_hunger' = d.self.prey_hunger
    /\ stats' = d.self.stats
    /\ statistics' = d.self.statistics
    /\ recorded_frames' = d.self.recorded_frames
    /\ faulted' = d.faulted
    /\ current_step' = d.current_step
    /\ status' = d.status
    /\ last_statistics' = get_statistics(d.self).out

\* the body of a response that reports the session: of the WebSocket
\* commands, and with steps_run added of main.step_simulation
SessionResponse(op, d) ==
    [op |-> op, id |-> "ws", status |-> d.status,
     current_step |-> d.current_step, total_steps |-> total_steps,
     grid |-> d.self.grid, statistics |-> get_statistics(d.self).out]

StepResponse(op, d) ==
    [op |-> op, id |-> "http", status |-> d.status,
     current_step |-> d.current_step, total_steps |-> total_steps,
     grid |-> d.self.grid, statistics |-> get_statistics(d.self).out,
     steps_run |-> d.steps_run]

\* largest steps value of a request
MaxSteps == 2

\* grid sides from which main.step_simulation steps on a worker thread
LargeGridSize == 500

\* POST /api/simulate/{id}/step?steps=n (main.step_simulation), grids below
\* LargeGridSize
HttpStepRequest ==
    /\ pc = "idle"
    /\ Size < LargeGridSize
    /\ \E requested \in 0 .. MaxSteps :
          LET steps == IF requested <= 0 THEN 1 ELSE requested
          IN  IF status = "completed"
              THEN /\ reply' = StepResponse("already_completed", SimData)
                   /\ Install(SimData)
              ELSE \E d \in http_loop({SimData}, steps) :
                      /\ Install(MarkCompleted(d))
                      /\ reply' = StepResponse("step", MarkCompleted(d))
    /\ UNCHANGED <<pc, req, result, params, recording_enabled, new, coords,
                   total_steps, alloc_fails, store, clock>>

\* the WebSocket command {"action": "step", "steps": n}
WsStep ==
    /\ pc = "idle"
    /\ \E steps \in 0 .. MaxSteps :
          \E d \in ws_loop({SimData}, steps) :
             /\ Install(MarkCompleted(d))
             /\ reply' = SessionResponse("step", MarkCompleted(d))
    /\ UNCHANGED <<pc, req, result, params, recording_enabled, new, coords,
                   total_steps, alloc_fails, store, clock>>

\* the WebSocket command {"action": "stop"}
WsStop ==
    /\ pc = "idle"
    /\ status' = "stopped"
    /\ reply' = [op |-> "stop", id |-> "ws", status |-> "stopped"]
    /\ UNCHANGED <<pc, req, result, params, recording_enabled, grid,
                   predator_hunger, prey_hunger, stats, statistics,
                   recorded_frames, new, coords, total_steps, current_step,
                   alloc_fails, faulted, last_statistics, store, clock>>

\* the WebSocket command {"action": "ping"}
WsPing ==
    /\ pc = "idle"
    /\ reply' = [op |-> "pong", id |-> "ws", status |-> ""]
    /\ UNCHANGED <<pc, req, result, params, recording_enabled, grid,
                   predator_hunger, prey_hunger, stats, statistics,
                   recorded_frames, new, coords, total_steps, current_step,
                   status, alloc_fails, faulted, last_statistics, store, clock>>

\* Simulation.__init__ on the value main's reset hands it: initialize_grid
\* returns the pair (grid, adjustment_info), and the constructor keeps the
\* value as self.grid, counts self.grid == kind (0 for a tuple) and raises
\* AttributeError at self.grid.shape when the value is no array
Simulation(value, p) ==
    IF value.type = "tuple"
    THEN [raised |-> TRUE]
    ELSE [raised |-> FALSE,
          self |-> [grid |-> value.grid,
                    predator_hunger |->
                        [c \in DOMAIN value.grid |->
                            IF value.grid[c] = PREDATOR THEN 0 ELSE -1],
                    prey_hunger |->
                        [c \in DOMAIN value.grid |->
                            IF value.grid[c] = PREY THEN 0 ELSE -1],
                    stats |-> [predator_count |-> <<CountKind(value.grid, PREDATOR)>>,
                               prey_count |-> <<CountKind(value.grid, PREY)>>,
                               substrate_count |-> <<CountKind(value.grid, SUBSTRATE)>>],
                    statistics |-> NoEvents,
                    recorded_frames |-> <<>>,
                    params |-> p,
                    adjustment_info |-> [values_adjusted |-> FALSE]]]

\* the WebSocket command {"action": "reset"}: grid = initialize_grid(...) is
\* not unpacked, and an exception of the command is answered with an error
\* message, the session left as it was up to the statement that raised
WsReset ==
    /\ pc = "idle"
    /\ \E perm \in InitShuffles(req.size.v) :
          LET returned == initialize_grid(req, perm)
              simulation ==
                  Simulation([type |-> "tuple", grid |-> returned.grid,
                              adjustment_info |-> returned.adjustment_info],
                             params)
          IN  IF returned.raised \/ simulation.raised
              THEN /\ reply' = [op |-> "reset", id |-> "ws", status |-> "error"]
                   /\ UNCHANGED <<grid, predator_hunger, prey_hunger, stats,
                                  statistics, recorded_frames, faulted,
                                  current_step, status, last_statistics>>
              ELSE /\ Install([self |-> simulation.self, faulted |-> {},
                               current_step |-> 0, status |-> "running"])
                   /\ reply' = SessionResponse("reset",
                                   [self |-> simulation.self,
                                    current_step |-> 0, status |-> "running"])
    /\ UNCHANGED <<pc, req, result, params, recording_enabled, new, coords,
                   total_steps, alloc_fails, store, clock>>

(* ============================ specifications ============================ *)

\* side of the simulated grids and largest requested prey / predator count
SimSize == 2
MaxInitial == 2

\* requests of the simulated sessions: valid, small
SimRequests ==
    {Request(PyInt(SimSize), PyInt(prey), PyInt(pred), PyFloat(prob)) :
        prey \in 0 .. MaxInitial - 1, pred \in 0 .. MaxInitial,
        prob \in {0, 500}}

\* parameter dictionaries of the simulated sessions: two built by
\* main.start_simulation from SimulationSettings, one handed to Simulation
\* directly with the keys its rules read
SimParams(r) ==
    {SettingsDict(r, "von_neumann", "torus", 1, 1, 0, 330, 30),
     Put(Put(Put(SettingsDict(r, "von_neumann", "finite", 2, 2, 0, 330, 0),
                 "predator_death_chance", 0),
             "prey_death_chance", 0),
         "grid_type", "bounded")}

Init ==
    /\ pc = "request"
    /\ req \in SimRequests
    /\ params \in SimParams(req)
    /\ recording_enabled = FALSE
    /\ total_steps = MaxGen
    /\ alloc_fails = FALSE
    /\ store = EmptyStore
    /\ Unstarted

Next ==
    \/ Initialize
    \/ Construct
    \/ StepBegin
    \/ ProcessCell
    \/ StepCommit

Spec == Init /\ [][Next]_vars

(* ---- initialize_grid alone, over a wide range of requests ---- *)

\* largest side and largest requested count of the small requests
MaxSmallSize == 3
MaxRequested == 10

\* the request schema's largest grid_size (SimulationSettings.grid_size, le=400)
MaxGridSize == 400

InitProbs == {0, 200, 250, 500, 1000}

\* large requests keep max_entities * prey below 2^31
InitRequests ==
    {Request(PyInt(sz), PyInt(prey), PyInt(pred), PyFloat(prob)) :
        sz \in 1 .. MaxSmallSize, prey \in 0 .. MaxRequested,
        pred \in 0 .. MaxRequested, prob \in InitProbs}
    \cup
    {Request(PyInt(10), PyInt(q[1]), PyInt(q[2]), PyFloat(q[3])) :
        q \in {<<0, 0, 0>>, <<3, 2, 500>>, <<50, 40, 250>>, <<100, 100, 1000>>}}
    \cup
    {Request(PyInt(sz), PyInt(prey), PyInt(pred), PyFloat(prob)) :
        sz \in {MaxGridSize, MaxGridSize + 1, 800, 900, 999, 1000, 1100},
        prey \in {0, 1, 4000, 5000},
        pred \in {0, 1000, 250000, 400000, 600000},
        prob \in {0, 200, 250, 1000}}
    \cup
    {Request(PyInt(799), PyInt(prey), PyInt(pred), PyFloat(prob)) :
        prey \in {0, 1, 4000}, pred \in {0, 1000, 600000}, prob \in {0, 250}}
    \cup
    {Request(sz, prey, pred, prob) :
        sz \in {PyInt(2), PyInt(0), PyInt(-1), PyFloat(2)},
        prey \in {PyInt(1), PyInt(-1), PyFloat(1)},
        pred \in {PyInt(1), PyInt(-1), PyFloat(1)},
        prob \in {PyFloat(250), PyFloat(-1), PyFloat(1001), PyInt(0), PyInt(1)}}

InitOnly ==
    /\ pc = "request"
    /\ req \in InitRequests
    /\ params = EmptyDict
    /\ recording_enabled = FALSE
    /\ total_steps = 0
    /\ alloc_fails = FALSE
    /\ store = EmptyStore
    /\ Unstarted

SpecInit == InitOnly /\ [][Initialize]_vars

(* ---- the lone-predator scenario: one Predator on a 5 x 5 torus ---- *)
LoneSize == 5
LoneStarvationSteps == 3
\* generations run: one more than the threshold
LoneSteps == LoneStarvationSteps + 1

\* the scenario's parameters, as main.start_simulation builds them from the
\* settings (predator_death_probability = 0) and as a caller of Simulation
\* that names the key _update_predator reads (predator_death_chance = 0)
LoneParams(r) ==
    {SettingsDict(r, "von_neumann", "torus", LoneStarvationSteps, 3, 0, 330, 30)}
    \cup
    {Put(SettingsDict(r, "von_neumann", "torus", LoneStarvationSteps, 3, 0, 330, 30),
         "predator_death_chance", 0)}

InitLone ==
    /\ pc = "request"
    /\ req = Request(PyInt(LoneSize), PyInt(0), PyInt(1), PyFloat(0))
    /\ params \in LoneParams(req)
    /\ recording_enabled = FALSE
    /\ total_steps = LoneSteps
    /\ alloc_fails = FALSE
    /\ store = EmptyStore
    /\ Unstarted

SpecLone == InitLone /\ [][Next]_vars

(* ---- a session with statistics calls and the recordings directory ---- *)

\* requests of the recorded sessions: one of them is density-clamped
RecRequests ==
    {Request(PyInt(SimSize), PyInt(prey), PyInt(pred), PyFloat(0)) :
        prey \in {0, 1}, pred \in {1, 3}}

InitRec ==
    /\ pc = "request"
    /\ req \in RecRequests
    /\ params = SettingsDict(req, "von_neumann", "torus", 1, 1, 0, 330, 30)
    /\ recording_enabled \in BOOLEAN
    /\ total_steps = MaxGen
    /\ alloc_fails = FALSE
    /\ store = EmptyStore
    /\ Unstarted

NextRec ==
    \/ Next
    \/ GetStatistics

SpecRec == InitRec /\ [][NextRec]_vars

(* ---- a session and the recordings directory ---- *)

\* a recording an earlier session left under the other id
EarlierRecording ==
    [metadata |-> Written([simulation_id |-> "b", created_at |-> 0,
                           grid_size |-> SimSize, frame_count |-> 0,
                           parameters |-> EmptyDict,
                           final_statistics |-> EmptyDict]),
     frames |-> Written(<<>>)]

\* the directory when the session starts: empty, or holding the earlier
\* recording, whole or with its metadata file only
StoreInits ==
    {EmptyStore,
     [EmptyStore EXCEPT !["b"] = EarlierRecording],
     [EmptyStore EXCEPT !["b"] = [EarlierRecording EXCEPT !.frames = Absent]]}

InitStore ==
    /\ pc = "request"
    /\ req = Request(PyInt(SimSize), PyInt(0), PyInt(1), PyFloat(0))
    /\ params = Put(SettingsDict(req, "von_neumann", "torus", 1, 1, 0, 330, 0),
                    "predator_death_chance", 0)
    /\ recording_enabled \in BOOLEAN
    /\ total_steps = MaxGen
    /\ alloc_fails = FALSE
    /\ store \in StoreInits
    /\ Unstarted

NextStore ==
    \/ Next
    \/ SaveRecording
    \/ LoadRecording
    \/ ListRecordings
    \/ DeleteRecording

SpecStore == InitStore /\ [][NextStore]_vars

(* ---- construction on grids around the frame threshold ---- *)

\* grids of LargeFrameSize rows and more, built by initialize_grid and handed
\* to Simulation directly (main accepts no more than MaxGridSize rows)
LargeRequests ==
    {Request(PyInt(sz), PyInt(prey), PyInt(pred), PyFloat(prob)) :
        sz \in {LargeFrameSize, LargeFrameSize + 1, LargeFrameSize + 100},
        prey \in {0, 1, 100}, pred \in {0, 50}, prob \in {0, 250}}

InitLarge ==
    /\ pc = "request"
    /\ req \in LargeRequests
    /\ params = SettingsDict(req, "moore", "finite", 10, 15, 50, 330, 30)
    /\ recording_enabled \in BOOLEAN
    /\ total_steps = 0
    /\ alloc_fails = FALSE
    /\ store = EmptyStore
    /\ Unstarted

NextLarge ==
    \/ Initialize
    \/ ConstructLarge

SpecLarge == InitLarge /\ [][NextLarge]_vars

(* ---- sessions that run out of memory ---- *)

InitAlloc ==
    /\ pc = "request"
    /\ req \in RecRequests
    /\ params = SettingsDict(req, "von_neumann", "torus", 1, 1, 0, 330, 30)
    /\ recording_enabled = TRUE
    /\ total_steps = MaxGen
    /\ alloc_fails = FALSE
    /\ store = EmptyStore
    /\ Unstarted

NextAlloc ==
    \/ Next
    \/ StepAllocationFails
    \/ MemoryPressure

SpecAlloc == InitAlloc /\ [][NextAlloc]_vars

(* ---- sessions whose cell rules raise ---- *)

FaultRequests ==
    {Request(PyInt(SimSize), PyInt(prey), PyInt(1), PyFloat(prob)) :
        prey \in {0, 1}, prob \in {0, 500}}

\* parameter dicts handed to Simulation directly: one without the key the
\* substrate rule reads, one without a key the empty-cell rule reads, one
\* whose 'predator_death_chance' is not a number
FaultParams(r) ==
    LET settings == SettingsDict(r, "von_neumann", "torus", 2, 2, 0, 330, 0)
    IN  {Without(settings, "substrate_random_death"),
         Without(settings, "initial_substrate_probability"),
         Put(settings, "ill_typed", {"predator_death_chance"})}

InitFault ==
    /\ pc = "request"
    /\ req \in FaultRequests
    /\ params \in FaultParams(req)
    /\ recording_enabled = FALSE
    /\ total_steps = MaxGen
    /\ alloc_fails = FALSE
    /\ store = EmptyStore
    /\ Unstarted

SpecFault == InitFault /\ [][Next]_vars

(* ---- sessions stepped on a worker thread ---- *)

ThreadRequests ==
    {Request(PyInt(SimSize), PyInt(prey), PyInt(1), PyFloat(0)) : prey \in {0, 1}}

InitThread ==
    /\ pc = "request"
    /\ req \in ThreadRequests
    /\ params = SettingsDict(req, "von_neumann", "torus", 1, 1, 0, 330, 30)
    /\ recording_enabled = FALSE
    /\ total_steps = MaxGen
    /\ alloc_fails = FALSE
    /\ store = EmptyStore
    /\ Unstarted

NextThread ==
    \/ Initialize
    \/ Construct
    \/ StepBegin
    \/ ProcessCell
    \/ CommitGrid
    \/ CommitPredatorHunger
    \/ CommitPreyHunger
    \/ CommitSeries
    \/ GetSimulationStatus

SpecThread == InitThread /\ [][NextThread]_vars

(* ---- sessions on a grid with the finite boundary mode ---- *)

\* side of the grid: large enough for a wrapped neighbour at radius 1 or 2
\* to differ from every neighbour reached without wrapping
FiniteSize == 4

FiniteRequests ==
    {Request(PyInt(FiniteSize), PyInt(prey), PyInt(1), PyFloat(0)) :
        prey \in {0, 1}}

\* settings.dict() with grid_type 'finite', for either neighbourhood
FiniteParams(r) ==
    {SettingsDict(r, neighborhood_type, "finite", 2, 2, 0, 330, 0) :
        neighborhood_type \in {"von_neumann", "moore"}}

InitFinite ==
    /\ pc = "request"
    /\ req \in FiniteRequests
    /\ params \in FiniteParams(req)
    /\ recording_enabled = FALSE
    /\ total_steps = 1
    /\ alloc_fails = FALSE
    /\ store = EmptyStore
    /\ Unstarted

SpecFinite == InitFinite /\ [][Next]_vars

(* ---- sessions configured without random death ---- *)

DeathRequests ==
    {Request(PyInt(SimSize), PyInt(prey), PyInt(pred), PyFloat(0)) :
        prey \in {0, 1}, pred \in {0, 1}}

\* settings.dict() with predator_death_probability = 0 and
\* prey_random_death = 0
DeathParams(r) ==
    Put(SettingsDict(r, "von_neumann", "torus", 2, 2, 0, 330, 0),
        "prey_random_death", 0)

InitDeath ==
    /\ pc = "request"
    /\ req \in DeathRequests
    /\ params = DeathParams(req)
    /\ recording_enabled = FALSE
    /\ total_steps = MaxGen
    /\ alloc_fails = FALSE
    /\ store = EmptyStore
    /\ Unstarted

SpecDeath == InitDeath /\ [][Next]_vars

(* ---- calls of the neighbourhood functions ---- *)

InitNeighbors ==
    /\ pc = "request"
    /\ req = Request(PyInt(SimSize), PyInt(0), PyInt(0), PyFloat(0))
    /\ params = EmptyDict
    /\ recording_enabled = FALSE
    /\ total_steps = 0
    /\ alloc_fails = FALSE
    /\ store = EmptyStore
    /\ Unstarted

NextNeighbors ==
    \/ GetNeighborsCoords
    \/ GetNearbyCells

SpecNeighbors == InitNeighbors /\ [][NextNeighbors]_vars

(* ---- sessions of Predators and Prey on a grid wider than a neighbourhood ---- *)

\* side of the grid: a cell has cells beyond its radius-2 neighbourhood
HuntSize == 4

HuntRequests ==
    {Request(PyInt(HuntSize), PyInt(prey), PyInt(pred), PyFloat(0)) :
        prey \in {1}, pred \in {1, 2}}

\* settings.dict() on a torus, and the same params with the grid_type
\* _get_nearby_cells takes for a grid with edges
HuntParams(r) ==
    {SettingsDict(r, "von_neumann", "torus", 2, 2, 0, 330, 0),
     Put(SettingsDict(r, "von_neumann", "torus", 2, 2, 0, 330, 0),
         "grid_type", "bounded")}

InitHunt ==
    /\ pc = "request"
    /\ req \in HuntRequests
    /\ params \in HuntParams(req)
    /\ recording_enabled = FALSE
    /\ total_steps = 1
    /\ alloc_fails = FALSE
    /\ store = EmptyStore
    /\ Unstarted

SpecHunt == InitHunt /\ [][Next]_vars

(* ---- sessions for the rule of the Empty cells ---- *)

EmptyRequests ==
    {Request(PyInt(SimSize), PyInt(prey), PyInt(pred), PyFloat(prob)) :
        prey \in {1}, pred \in {1, 2}, prob \in {0, 500}}

\* settings.dict() for either boundary mode, with and without Predator births
EmptyParams(r) ==
    {SettingsDict(r, "von_neumann", grid_type, 2, 2, 0, birth_pred, 0) :
        grid_type \in {"torus", "finite"}, birth_pred \in {0, 330}}

InitEmpty ==
    /\ pc = "request"
    /\ req \in EmptyRequests
    /\ params \in EmptyParams(req)
    /\ recording_enabled = FALSE
    /\ total_steps = 1
    /\ alloc_fails = FALSE
    /\ store = EmptyStore
    /\ Unstarted

SpecEmpty == InitEmpty /\ [][Next]_vars

(* ---- a session driven by step requests and WebSocket commands ---- *)

\* SimulationSettings.steps of the sessions: an int without bounds
SessionTotalSteps == {-1, 0, 1, 2}

SessionRequests ==
    {Request(PyInt(SimSize), PyInt(prey), PyInt(1 - prey), PyFloat(0)) : prey \in {0, 1}}

\* settings.dict() of the sessions
SessionParams(r) == SettingsDict(r, "von_neumann", "torus", 2, 2, 0, 330, 0)

InitSession ==
    /\ pc = "request"
    /\ req \in SessionRequests
    /\ params = SessionParams(req)
    /\ recording_enabled = FALSE
    /\ total_steps \in SessionTotalSteps
    /\ alloc_fails = FALSE
    /\ store = EmptyStore
    /\ Unstarted

NextSession ==
    \/ Initialize
    \/ Construct
    \/ HttpStepRequest
    \/ WsStep
    \/ WsStop
    \/ WsPing
    \/ WsReset

SpecSession == InitSession /\ [][NextSession]_vars

(* ---- a session driven by step requests that keep being issued ---- *)

NextProgress ==
    \/ Initialize
    \/ Construct
    \/ HttpStepRequest

\* a client that keeps issuing step requests: a request that would change the
\* session is eventually made
SpecProgress ==
    InitSession /\ [][NextProgress]_vars /\ WF_vars(HttpStepRequest)

(* ================================ claims ================================ *)

Committed == pc = "idle"

\* the thresholds and chances the rules read from params
PredatorThreshold ==
    Get(params, "predator_starvation_steps", DefaultPredatorStarvationSteps)
PreyThreshold ==
    Get(params, "prey_starvation_steps", DefaultPreyStarvationSteps)
PredatorDeathChance ==
    Get(params, "predator_death_chance", DefaultPredatorDeathChance)
PreyDeathChance ==
    Get(params, "prey_death_chance", DefaultPreyDeathChance)

\* C1: in every committed state, for every cell, predator_hunger is -1 iff
\* the cell is not a Predator and prey_hunger is -1 iff the cell is not a Prey
\* (for every processing order of the sweep).
C1_HungerMatchesKind ==
    Committed =>
        \A c \in DOMAIN grid :
            /\ (predator_hunger[c] = -1) <=> (grid[c] # PREDATOR)
            /\ (prey_hunger[c] = -1) <=> (grid[c] # PREY)

\* C2: first-writer-wins: during a sweep, a buffer cell that an earlier
\* processed cell has written (its value differs from the generation-start
\* grid) is not written again by a later processed cell.
C2_FirstWriterWins ==
    [][(pc = "sweep" /\ pc' = "sweep") =>
          \A d \in DOMAIN grid :
              new.g[d] # grid[d] =>
                  /\ new'.g[d] = new.g[d]
                  /\ new'.ph[d] = new.ph[d]
                  /\ new'.yh[d] = new.yh[d]]_vars

\* the buffers outside cell c are untouched by the step
OnlyCellChanged(c) ==
    /\ \A d \in DOMAIN grid : d # c => new'.g[d] = new.g[d]
    /\ new'.ph = new.ph
    /\ new'.yh = new.yh

\* the rule of the Predator at c, hunger h, as the step new -> new' shows it
PredatorStarvationRule(c) ==
    LET h == predator_hunger[c]
        removed == new'.g[c] = EMPTY /\ OnlyCellChanged(c)
        fed == \E t \in DOMAIN grid :
                  /\ grid[t] = PREY /\ new'.g[t] = PREDATOR /\ new'.ph[t] = 0
                  /\ new'.g[c] = EMPTY /\ new'.ph[c] = -1
        stayed == new'.g[c] = PREDATOR /\ new'.ph[c] = h + 1
        moved == \E d \in DOMAIN grid :
                  /\ grid[d] = EMPTY /\ new'.g[d] = PREDATOR
                  /\ new'.ph[d] = h + 1
                  /\ new'.g[c] = EMPTY /\ new'.ph[c] = -1
    IN  /\ h >= PredatorThreshold => removed
        /\ h < PredatorThreshold =>
              \/ removed /\ PredatorDeathChance > 0
              \/ fed
              \/ stayed
              \/ moved

\* the rule of the Prey at c, hunger h, as the step new -> new' shows it
PreyStarvationRule(c) ==
    LET h == prey_hunger[c]
        removed == new'.g[c] = EMPTY /\ OnlyCellChanged(c)
        fed == \E f \in DOMAIN grid :
                  /\ grid[f] = SUBSTRATE /\ new'.g[f] = EMPTY
                  /\ new'.g[c] = PREY /\ new'.yh[c] = 0
        stayed == new'.g[c] = PREY /\ new'.yh[c] = h + 1
        moved == \E d \in DOMAIN grid :
                  /\ grid[d] = EMPTY /\ new'.g[d] = PREY
                  /\ new'.yh[d] = h + 1
                  /\ new'.g[c] = EMPTY /\ new'.yh[c] = -1
    IN  /\ h >= PreyThreshold => removed
        /\ h < PreyThreshold =>
              \/ removed /\ PreyDeathChance > 0
              \/ fed
              \/ stayed
              \/ moved

\* C3: whenever the rule of a Predator (resp. Prey) is evaluated: if its
\* hunger has reached the starvation threshold it is removed; if its hunger
\* is below the threshold it is removed only by random death, and unless it
\* feeds it continues (in place or on the Empty cell it moves to) with its
\* hunger increased by exactly 1.
C3_StarvationRule ==
    [][(pc = "sweep" /\ pc' = "sweep") =>
          \A c \in coords \ coords' :
              new.g[c] = grid[c] =>
                  /\ grid[c] = PREDATOR => PredatorStarvationRule(c)
                  /\ grid[c] = PREY => PreyStarvationRule(c)]_vars

\* a Predator and a Prey have both been removed by starvation, and a Predator
\* below its threshold has continued with its hunger increased by 1
C3_Witness ==
    /\ pc = "sweep"
    /\ \E c \in DOMAIN grid \ coords :
          /\ grid[c] = PREDATOR /\ predator_hunger[c] >= PredatorThreshold
          /\ new.g[c] = EMPTY
    /\ \E c \in DOMAIN grid \ coords :
          /\ grid[c] = PREDATOR /\ predator_hunger[c] = 0
          /\ PredatorThreshold > 0
          /\ new.g[c] = PREDATOR /\ new.ph[c] = 1

\* C4: on a 5 x 5 torus with one Predator (hunger 0), no Prey, the predator
\* death probability configured to 0 and predator_starvation_steps = 3, the
\* Predator is present after 1 and 2 calls of step and the grid contains no
\* Predator after 3 calls.
C4_LonePredatorStarvesAtThree ==
    (Committed /\ params["predator_death_probability"] = 0
        /\ PredatorThreshold = LoneStarvationSteps) =>
        /\ Gen \in 1 .. LoneStarvationSteps - 1 => CountKind(grid, PREDATOR) = 1
        /\ Gen = LoneStarvationSteps => CountKind(grid, PREDATOR) = 0

\* C4 (as the code behaves): in the same scenario a Predator that is still
\* on the grid after k <= predator_starvation_steps calls has hunger k, so it
\* is not removed by starvation in the first predator_starvation_steps calls;
\* the grid contains no Predator after predator_starvation_steps + 1 calls;
\* and the Predator is certainly present after calls 1 .. threshold only
\* when params holds predator_death_chance = 0, the key the rule reads
\* (predator_death_probability = 0 leaves the default chance in force).
C4_LonePredatorStarvesAfterThreshold ==
    Committed =>
        /\ CountKind(grid, PREDATOR) <= 1
        /\ \A c \in DOMAIN grid :
              (grid[c] = PREDATOR /\ Gen <= PredatorThreshold) =>
                  predator_hunger[c] = Gen
        /\ (Gen <= PredatorThreshold /\ PredatorDeathChance = 0) =>
              CountKind(grid, PREDATOR) = 1
        /\ Gen = PredatorThreshold + 1 => CountKind(grid, PREDATOR) = 0

\* with predator_death_chance = 0 the Predator has been carried to hunger =
\* threshold and the call after that has removed it
C4_Witness ==
    /\ Committed
    /\ PredatorDeathChance = 0
    /\ PredatorThreshold = LoneStarvationSteps
    /\ Gen = PredatorThreshold + 1
    /\ CountKind(grid, PREDATOR) = 0

\* every cell of g holds one of the four kinds and g has the shape n x n
WellFormed(g, n) ==
    /\ DOMAIN g = Coords(n)
    /\ \A c \in DOMAIN g : g[c] \in Kinds
    /\ CountKind(g, EMPTY) + CountKind(g, PREY) + CountKind(g, PREDATOR)
          + CountKind(g, SUBSTRATE) = n * n

\* C5: after initialize and after every step every cell holds exactly one of
\* the four kinds, the four counts add up to size^2 and the shape is size x size.
C5_CountsSumToCells ==
    /\ pc = "initialized" => WellFormed(result.grid, req.size.v)
    /\ pc \in {"idle", "sweep"} => WellFormed(grid, req.size.v)

\* a generation has been committed in which a Substrate cell died or was eaten
C5_Witness ==
    /\ Committed
    /\ Gen >= 1
    /\ \E c \in DOMAIN grid : result.grid[c] = SUBSTRATE /\ grid[c] = EMPTY
    /\ CountKind(grid, PREY) + CountKind(grid, PREDATOR) > 0

(* ---- claims about initialize_grid ---- *)

Initialized == pc = "initialized"
Cells == req.size.v * req.size.v
RequestedPrey == req.initial_prey.v
RequestedPredators == req.initial_predators.v
RequestedProb == req.initial_substrate_prob.v
RequestedTotal == RequestedPrey + RequestedPredators
PlacedTotal == result.counts.predator + result.counts.prey

\* quotient and remainder of a * b by c (a, b >= 0, c > 0), by doubling, so
\* that no intermediate value exceeds 2 * c + a
RECURSIVE MulDiv(_, _, _)
MulDiv(a, b, c) ==
    IF b = 0
    THEN [q |-> 0, r |-> 0]
    ELSE LET h == MulDiv(a, b \div 2, c)
             r2 == 2 * h.r
             q2 == 2 * h.q + r2 \div c
             r3 == (r2 % c) + (IF b % 2 = 1 THEN a % c ELSE 0)
             q3 == q2 + (IF b % 2 = 1 THEN a \div c ELSE 0)
         IN  [q |-> q3 + r3 \div c, r |-> r3 % c]

\* |placed - cap * part / total| <= 1
WithinOneOfShare(placed, cap, part, total) ==
    LET m == MulDiv(cap, part, total)
    IN  /\ placed <= m.q + 1
        /\ placed >= m.q + (IF m.r > 0 THEN 1 ELSE 0) - 1

\* C6: for every size < 800 and every request with initial_predators +
\* initial_prey > 0.8 * size^2, initialize places at most floor(0.8 * size^2)
\* Predator plus Prey cells, the placed prey and the placed predators are each
\* within 1 entity of cap * requested share, and values_adjusted is true.
C6_RegularDensityClamp ==
    (Initialized /\ req.size.v < VeryLargeSize
        /\ 10 * RequestedTotal > RegularDensityTenths * Cells) =>
        LET cap == (RegularDensityTenths * Cells) \div 10
        IN  /\ PlacedTotal <= cap
            /\ WithinOneOfShare(result.counts.prey, cap, RequestedPrey,
                                RequestedTotal)
            /\ WithinOneOfShare(result.counts.predator, cap,
                                RequestedPredators, RequestedTotal)
            /\ result.adjustment_info.values_adjusted

\* a request of both kinds above 80% of a small grid has been cut down to the
\* cap, with a split that is not a whole multiple of the requested ratio
C6_Witness ==
    /\ Initialized /\ req.size.v < VeryLargeSize
    /\ 10 * RequestedTotal > RegularDensityTenths * Cells
    /\ RequestedPrey > 0 /\ RequestedPredators > 0
    /\ result.counts.prey > 0 /\ result.counts.predator > 0
    /\ PlacedTotal = (RegularDensityTenths * Cells) \div 10
    /\ MulDiv(PlacedTotal, RequestedPrey, RequestedTotal).r > 0

\* the scenario of C7: size = 900, 1000 predators, 5000 prey
C7Scenario ==
    /\ Initialized
    /\ req.size.v = 900
    /\ RequestedPredators = 1000
    /\ RequestedPrey = 5000

\* C7: initialize with size = 900, initial_predators = 1000, initial_prey =
\* 5000 clamps the entity counts to at most 30% density and returns an
\* adjustment report with values_adjusted true.
C7_ScenarioClampsAndReports ==
    C7Scenario =>
        /\ 10 * PlacedTotal <= HugeDensityTenths * Cells
        /\ result.adjustment_info.values_adjusted

\* C7 (as the code behaves): in the scenario the 6000 requested entities are
\* below the cap that applies to size 900 (40% of 810000 cells), so exactly
\* 1000 predators and 5000 prey are placed and no entity count is recorded as
\* adjusted; values_adjusted is true exactly when the requested substrate
\* probability exceeds 0.2.
C7_ScenarioPlacesAllRequested ==
    C7Scenario =>
        /\ result.counts.predator = 1000
        /\ result.counts.prey = 5000
        /\ "initial_prey" \notin DOMAIN result.adjustment_info.adjusted_values
        /\ "initial_predators" \notin DOMAIN result.adjustment_info.adjusted_values
        /\ result.adjustment_info.values_adjusted
              <=> (RequestedProb > LargeSubstrateCap)

\* the scenario has run with a substrate probability that needs no cap
C7_Witness ==
    /\ C7Scenario
    /\ RequestedProb <= LargeSubstrateCap
    /\ PlacedTotal = 6000
    /\ ~result.adjustment_info.values_adjusted

\* C8: for size >= 1000 the placed prey + predators are at most
\* floor(0.3 * size^2); for 800 <= size < 1000 at most floor(0.4 * size^2);
\* for every size >= 800 the substrate probability used is min(requested,
\* 0.2); values_adjusted is true whenever a cap changed a requested value.
C8_LargeGridPolicy ==
    (Initialized /\ req.size.v >= VeryLargeSize) =>
        /\ req.size.v >= HugeSize =>
              PlacedTotal <= (HugeDensityTenths * Cells) \div 10
        /\ req.size.v < HugeSize =>
              PlacedTotal <= (VeryLargeDensityTenths * Cells) \div 10
        /\ result.used.initial_substrate_prob =
              Min(RequestedProb, LargeSubstrateCap)
        /\ (\/ result.used.initial_prey # RequestedPrey
            \/ result.used.initial_predators # RequestedPredators
            \/ result.used.initial_substrate_prob # RequestedProb)
              => result.adjustment_info.values_adjusted

\* a grid of side >= 1000 has had both its entities cut to 30% of the cells
\* and its substrate probability cut to 0.2
C8_Witness ==
    /\ Initialized /\ req.size.v >= HugeSize
    /\ 10 * RequestedTotal > VeryLargeDensityTenths * Cells
    /\ PlacedTotal = (HugeDensityTenths * Cells) \div 10
    /\ RequestedProb > LargeSubstrateCap
    /\ result.used.initial_substrate_prob = LargeSubstrateCap
    /\ result.adjustment_info.values_adjusted

\* C9: with K_predator, K_prey and p the post-clamp counts and probability,
\* the returned grid has exactly K_predator Predator cells, exactly K_prey
\* Prey cells, exactly floor((size^2 - K_predator - K_prey) * p) Substrate
\* cells and all other cells Empty; size = 10 with 0 predators, 0 prey and
\* probability 0 gives an all-Empty grid (Empty = 100).
C9_ExactDisjointPlacement ==
    (Initialized /\ result.explicit) =>
        LET Kd == result.used.initial_predators
            Ky == result.used.initial_prey
            Ks == ((Cells - Kd - Ky) * result.used.initial_substrate_prob)
                      \div ProbDen
        IN  /\ CountKind(result.grid, PREDATOR) = Kd
            /\ CountKind(result.grid, PREY) = Ky
            /\ CountKind(result.grid, SUBSTRATE) = Ks
            /\ CountKind(result.grid, EMPTY) = Cells - Kd - Ky - Ks
            /\ DOMAIN result.grid = Coords(req.size.v)
            /\ (req.size.v = 10 /\ RequestedTotal = 0 /\ RequestedProb = 0) =>
                  /\ \A c \in DOMAIN result.grid : result.grid[c] = EMPTY
                  /\ result.counts.empty = 100

\* a grid has been built that holds all four kinds
C9_Witness ==
    /\ Initialized /\ result.explicit
    /\ CountKind(result.grid, PREDATOR) > 1
    /\ CountKind(result.grid, PREY) > 1
    /\ CountKind(result.grid, SUBSTRATE) > 1
    /\ CountKind(result.grid, EMPTY) > 0

\* the inputs C10 calls invalid, the configured maximum being the schema's
\* largest grid_size
C10Invalid ==
    \/ ~(req.size.t = "int" /\ req.size.v > 0)
    \/ req.size.v > MaxGridSize
    \/ req.initial_prey.v < 0
    \/ req.initial_predators.v < 0
    \/ ~(0 <= RequestedProb /\ RequestedProb <= ProbDen)

\* C10: initialize fails and produces no grid and no report whenever size is
\* not a positive integer or exceeds the configured maximum, initial_prey < 0,
\* initial_predators < 0 or the probability is outside [0, 1]; for every
\* input inside those ranges it succeeds and returns a grid.
C10_FailsExactlyOnInvalid ==
    pc \in {"initialized", "raised"} =>
        /\ C10Invalid => (pc = "raised" /\ "grid" \notin DOMAIN result)
        /\ ~C10Invalid => (pc = "initialized" /\ "grid" \in DOMAIN result)

\* the inputs initialize_grid rejects
C10Rejected ==
    \/ ~(req.size.t = "int" /\ req.size.v > 0)
    \/ ~(req.initial_prey.t = "int" /\ req.initial_prey.v >= 0)
    \/ ~(req.initial_predators.t = "int" /\ req.initial_predators.v >= 0)
    \/ ~(req.initial_substrate_prob.t = "float"
            /\ 0 <= RequestedProb /\ RequestedProb <= ProbDen)

\* C10 (as the code behaves): initialize fails, producing no grid and no
\* report, exactly when size is not a positive int, initial_prey or
\* initial_predators is not a non-negative int, or the probability is not a
\* float in [0, 1]; it has no maximum size of its own (the maximum of 400 is
\* the request schema's), so every other input, of any size, succeeds and
\* returns a grid and a report.
C10_FailsExactlyOnRejected ==
    pc \in {"initialized", "raised"} =>
        /\ C10Rejected =>
              /\ pc = "raised"
              /\ "grid" \notin DOMAIN result
              /\ "adjustment_info" \notin DOMAIN result
        /\ ~C10Rejected =>
              /\ pc = "initialized"
              /\ "grid" \in DOMAIN result
              /\ "adjustment_info" \in DOMAIN result

\* a request above the schema's maximum size has succeeded
C10_Witness ==
    /\ Initialized
    /\ req.size.v > MaxGridSize
    /\ "grid" \in DOMAIN result

\* some requested value differs from the value used for placement
Clamped ==
    \/ result.used.initial_prey # RequestedPrey
    \/ result.used.initial_predators # RequestedPredators
    \/ result.used.initial_substrate_prob # RequestedProb

\* C11: initialize always returns an adjustment report; when nothing was
\* clamped it is zero-valued (values_adjusted false, adjusted_values empty,
\* reason empty); when a value was clamped values_adjusted is true,
\* original_values are the requested inputs, the adjusted_values recorded for
\* the inputs are the values used for placement and the reason is not empty;
\* values_adjusted is true iff some requested value was clamped.
C11_ReportMatchesClamp ==
    Initialized =>
        LET info == result.adjustment_info
            av == info.adjusted_values
        IN  /\ info.values_adjusted <=> Clamped
            /\ info.original_values =
                  [initial_prey |-> RequestedPrey,
                   initial_predators |-> RequestedPredators,
                   initial_substrate_prob |-> RequestedProb]
            /\ ~Clamped => (av = EmptyDict /\ info.reason = <<>>)
            /\ Clamped =>
                  /\ info.reason # <<>>
                  /\ \A k \in DOMAIN av \cap DOMAIN result.used :
                        av[k] = result.used[k]
                  /\ \A k \in DOMAIN result.used :
                        result.used[k] # info.original_values[k] =>
                            k \in DOMAIN av


(* ---- claims about statistics, the series and the frames ---- *)

\* a step of the model that is one call of get_statistics
StatisticsCalled == pc = "idle" /\ pc' = "idle" /\ last_statistics' # None

\* C12: get_statistics is a pure read: a call changes neither the grid, the
\* hunger arrays, the historical series, the event counters nor the recorded
\* frames, and it returns what the previous call returned when no step was
\* taken in between.
C12_StatisticsPureRead ==
    [][StatisticsCalled =>
          /\ UNCHANGED <<grid, predator_hunger, prey_hunger, stats, statistics,
                         recorded_frames>>
          /\ last_statistics # None => last_statistics' = last_statistics]_vars

\* a second call after a step, on a grid that holds a hungry predator
C12_Witness ==
    /\ Committed
    /\ current_step > 0
    /\ last_statistics # None
    /\ last_statistics.starving_predators > 0


\* the series and the kind each of them counts
SeriesKind ==
    [predator_count |-> PREDATOR, prey_count |-> PREY, substrate_count |-> SUBSTRATE]

IsPrefix(a, b) == Len(a) <= Len(b) /\ \A i \in 1 .. Len(a) : a[i] = b[i]

\* C13: after construction and k completed steps each of the three series
\* has k + 1 entries, the newest entry of each is the count of its kind in the
\* committed grid (so entry i, appended when generation i was committed, is
\* the count of generation i), and a series only ever grows at its end:
\* existing entries are never modified or removed.
C13_HistoricalSeries ==
    /\ [](Committed =>
            \A name \in DOMAIN SeriesKind :
                /\ Len(stats[name]) = current_step + 1
                /\ stats[name][current_step + 1] = CountKind(grid, SeriesKind[name]))
    /\ [][\A name \in DOMAIN SeriesKind : IsPrefix(stats[name], stats'[name])]_vars

\* two generations completed, the predator count changed on the way
C13_Witness ==
    /\ Committed
    /\ current_step = MaxGen
    /\ stats.predator_count[1] # stats.predator_count[MaxGen]
    /\ stats.predator_count[MaxGen] # stats.predator_count[MaxGen + 1]


\* the counts of generation i, from the historical series
CountsOfGeneration(i) ==
    [predator_count |-> stats.predator_count[i + 1],
     prey_count |-> stats.prey_count[i + 1],
     substrate_count |-> stats.substrate_count[i + 1],
     empty_count |-> Size * Size - (stats.predator_count[i + 1]
         + stats.prey_count[i + 1] + stats.substrate_count[i + 1])]

\* a step of the model that is one call of save_recording
SaveCalled == clock' # clock /\ reply'.op = "save"

\* C14: with recording enabled the frame buffer holds k + 1 frames after
\* construction and k completed steps, and frame i carries generation index i
\* and the counts of generation i; with recording disabled the buffer is
\* empty in every state, and a flush answers with an error status and leaves
\* the recordings directory as it was.
C14_FrameBuffer ==
    /\ [](Committed /\ recording_enabled =>
            /\ Len(recorded_frames) = current_step + 1
            /\ \A i \in 0 .. current_step :
                  /\ recorded_frames[i + 1].step = i
                  /\ recorded_frames[i + 1].statistics = CountsOfGeneration(i))
    /\ [](~recording_enabled => recorded_frames = <<>>)
    /\ [][~recording_enabled /\ SaveCalled =>
              reply'.status = "error" /\ store' = store]_vars

\* three frames after two steps, the predator gone in the last one, flushed
C14_Witness ==
    /\ Committed
    /\ recording_enabled
    /\ current_step = MaxGen
    /\ Len(recorded_frames) = MaxGen + 1
    /\ recorded_frames[MaxGen + 1].statistics.predator_count
          # recorded_frames[1].statistics.predator_count
    /\ reply.op = "save"
    /\ reply.status = "success"

\* a flush of a session that does not record
C14_WitnessDisabled ==
    /\ Committed
    /\ ~recording_enabled
    /\ current_step = MaxGen
    /\ reply.op = "save"


\* C15: every captured frame, the frame of generation 0 included, stores the
\* grid when the grid has at most LargeFrameSize rows and omits it when the
\* grid has more.
C15_FramesFollowGridSize ==
    \A i \in 1 .. Len(recorded_frames) :
        recorded_frames[i].has_grid <=> Size <= LargeFrameSize


(* ---- claims about the recordings directory ---- *)

\* C16: when a flush of the session succeeds after k completed generations,
\* loading the same id succeeds and returns the frame sequence of the
\* session; metadata.frame_count is the number of generations recorded
\* (k + 1, generation 0 included) and the number of frames loaded, and
\* metadata.final_statistics is what the last statistics call before the
\* flush returned.
C16_RecordingRoundTrip ==
    [][SaveCalled /\ reply'.status = "success" =>
          LET loaded == load_recording(store', reply'.recording_id)
          IN  /\ loaded.status = "success"
              /\ loaded.frames = recorded_frames
              /\ loaded.metadata.frame_count = current_step + 1
              /\ loaded.metadata.frame_count = Len(loaded.frames)
              /\ loaded.metadata.final_statistics = last_statistics]_vars

\* the session flushed after its last generation and loaded again
C16_Witness ==
    /\ Committed
    /\ current_step = MaxGen
    /\ reply.op = "load"
    /\ reply.id = SessionId
    /\ reply.status = "success"
    /\ reply.frames = recorded_frames
    /\ reply.metadata.created_at > 0


\* both artifacts of id are in the directory
Present(id) == Exists(store[id].metadata) /\ Exists(store[id].frames)

\* the listing is ordered by creation time, newest first
NewestFirst(listing) ==
    \A i, j \in 1 .. Len(listing) :
        i < j => listing[i].created_at >= listing[j].created_at

\* load(id) returns both artifacts of id
LoadsBoth(id) ==
    LET loaded == load_recording(store, id)
    IN  /\ loaded.status = "success"
        /\ Written(loaded.metadata) = store[id].metadata
        /\ Written(loaded.frames) = store[id].frames

\* C17: after any sequence of flushes and deletes, failed flushes included,
\* list() returns exactly the ids of which both the metadata and the frames
\* artifact are present, each once, newest first; load(id) returns both
\* artifacts when both are present and an error status otherwise.
C17_ListAndLoadFollowPresence ==
    LET listing == get_available_recordings(store)
        listed == {listing[i].simulation_id : i \in 1 .. Len(listing)}
    IN  /\ listed = {id \in RecordingIds : Present(id)}
        /\ Len(listing) = Cardinality(listed)
        /\ NewestFirst(listing)
        /\ \A id \in RecordingIds :
              IF Present(id) THEN LoadsBoth(id)
              ELSE load_recording(store, id).status = "error"


\* a step of the model that is one call of delete_recording
DeleteCalled == clock' # clock /\ reply'.op = "delete"

\* the number of artifacts of id in the directory
ArtifactCount(id) ==
    (IF Exists(store[id].metadata) THEN 1 ELSE 0)
      + (IF Exists(store[id].frames) THEN 1 ELSE 0)

\* what a call of delete(id) does to the directory: the artifacts of id are
\* gone, those of every other id are untouched, load(id) fails and list()
\* does not contain id
DeleteEffect(id) ==
    /\ ~Exists(store'[id].metadata)
    /\ ~Exists(store'[id].frames)
    /\ \A other \in RecordingIds \ {id} : store'[other] = store[other]
    /\ load_recording(store', id).status = "error"
    /\ LET listing == get_available_recordings(store')
       IN  \A i \in 1 .. Len(listing) : listing[i].simulation_id # id

\* C18 as stated: delete(id) removes whichever artifacts of id exist, leaves
\* every other id untouched and reports the number removed, 0, 1 or 2;
\* afterwards load(id) returns not-found and list() does not contain id.
C18_DeleteReportsCount ==
    [][DeleteCalled =>
          /\ DeleteEffect(reply'.id)
          /\ "files_deleted" \in DOMAIN reply'
          /\ reply'.files_deleted = ArtifactCount(reply'.id)]_vars

\* C18: delete(id) removes whichever artifacts of id exist and leaves every
\* other id untouched; when it removed 1 or 2 it answers success with that
\* number, when there was nothing to remove it answers with an error status
\* (not found) and no number; afterwards load(id) returns an error status and
\* list() does not contain id.
C18_DeleteReportsCountOrNotFound ==
    [][DeleteCalled =>
          /\ DeleteEffect(reply'.id)
          /\ IF ArtifactCount(reply'.id) > 0
             THEN /\ reply'.status = "success"
                  /\ reply'.files_deleted = ArtifactCount(reply'.id)
             ELSE /\ reply'.status = "error"
                  /\ "files_deleted" \notin DOMAIN reply']_vars

\* the metadata file a failed flush left is deleted, the earlier recording
\* under the other id is still whole
C18_Witness ==
    /\ reply.op = "delete"
    /\ reply.id = SessionId
    /\ reply.status = "success"
    /\ reply.files_deleted = 1
    /\ store["b"] = EarlierRecording
    /\ ~Exists(store[SessionId].metadata)


(* ---- claims about the failures of step ---- *)

\* the step of the model in which the rule of a cell raises
CellFaulted == pc = "sweep" /\ faulted' # faulted

\* the step of the model that commits a generation
Commits == pc = "sweep" /\ pc' = "idle"

\* the committed hunger entries of cell c fit the kind the cell holds
HungerFitsKind(g, ph, yh, c) ==
    /\ g[c] = PREDATOR <=> ph[c] >= 0
    /\ g[c] = PREY <=> yh[c] >= 0

\* a faulted cell is committed with the value it had when the sweep began
FaultedCellsKeepValue == \A c \in faulted : grid'[c] = grid[c]

\* a faulted cell is committed with hunger entries that fit its kind
FaultedCellsKeepHunger ==
    \A c \in faulted : HungerFitsKind(grid', predator_hunger', prey_hunger', c)

\* C19: when the rule of a cell raises during a sweep, the sweep goes on with
\* the remaining coordinates and the generation is committed; in the
\* committed generation the faulted cell holds the value it had at the start
\* of the generation, with hunger entries that fit that kind.
C19_CellFaultContained ==
    [][/\ CellFaulted =>
            /\ pc' = "sweep"
            /\ \E c \in coords : coords' = coords \ {c} /\ faulted' = faulted \cup {c}
       /\ Commits => FaultedCellsKeepValue /\ FaultedCellsKeepHunger]_vars


\* the step of the model that is a call of step while no buffer can be
\* allocated
StepCalledWithoutMemory == pc = "idle" /\ alloc_fails /\ alloc_fails'

\* C20: when the allocation of the next-generation buffers fails at the start
\* of step, the failure is surfaced as a fatal error, the session is marked
\* failed and its generation counter is not advanced, and the committed
\* grid, hunger arrays, historical series and frames are unchanged.
C20_AllocationFailureSurfaced ==
    [][StepCalledWithoutMemory =>
          /\ status' = "error"
          /\ current_step' = current_step
          /\ UNCHANGED <<grid, predator_hunger, prey_hunger, stats,
                         recorded_frames>>]_vars

(* ---- claims about readers of a session that is being stepped ---- *)

\* the counts of a status response are those of the grid of the response
CountsOfGrid(o) ==
    /\ o.statistics.predator_count = CountKind(o.grid, PREDATOR)
    /\ o.statistics.prey_count = CountKind(o.grid, PREY)
    /\ o.statistics.substrate_count = CountKind(o.grid, SUBSTRATE)

\* the step of the model that changes the committed grid or hunger arrays
\* of a constructed session
Replaces ==
    /\ pc \notin {"request", "initialized"}
    /\ <<grid, predator_hunger, prey_hunger>>' # <<grid, predator_hunger, prey_hunger>>

\* C21: no partial generation is observable: during a sweep the committed
\* grid and hunger arrays are not mutated, the grid and the two hunger arrays
\* are replaced together, and the grid and the counts of every status
\* response, also of one served while step runs on a worker thread, belong to
\* the same generation.
C21_NoPartialGeneration ==
    /\ [](reply.op = "status" => CountsOfGrid(reply))
    /\ [][/\ pc = "sweep" /\ pc' = "sweep" =>
                UNCHANGED <<grid, predator_hunger, prey_hunger>>
          /\ Replaces =>
                /\ grid' = new.g
                /\ predator_hunger' = new.ph
                /\ prey_hunger' = new.yh]_vars

(* ---- claims about the neighbourhoods ---- *)

\* n is within the given distance of c on either axis, without wrapping
Unwrapped(c, n, distance) ==
    Abs(n[1] - c[1]) <= distance /\ Abs(n[2] - c[2]) <= distance

\* the neighbourhoods the cell rules take around c: _get_nearby_cells at
\* distance 1 and 2, and the neighbours count_neighbors counts
RuleNeighbourhoodsUnwrapped(c) ==
    /\ \A distance \in {1, 2} :
          \A n \in Elems(nearby_cells(params, Size, c, distance)) :
             Unwrapped(c, n, distance)
    /\ \A n \in Elems(get_neighbors_coords(Size, c, params["neighborhood_type"],
                                           params["grid_type"])) :
          Unwrapped(c, n, 1)

\* C22: with boundary mode finite, every neighbourhood the step rules use
\* holds only coordinates obtained without wrapping, and no Predator or Prey
\* appears in a generation further than two cells, counted without wrapping,
\* from every Predator and Prey of the generation before.
C22_FiniteNeverWraps ==
    /\ [](pc = "sweep" /\ params["grid_type"] = "finite" =>
            \A c \in DOMAIN grid : RuleNeighbourhoodsUnwrapped(c))
    /\ [][Commits /\ params["grid_type"] = "finite" =>
            \A n \in DOMAIN grid :
               grid'[n] \in {PREDATOR, PREY} /\ grid'[n] # grid[n] =>
                  \E c \in DOMAIN grid :
                     grid[c] \in {PREDATOR, PREY} /\ Unwrapped(c, n, 2)]_vars

(* ---- claims about the cell rules ---- *)

\* the step of the model that evaluates the rule of cell c
Evaluates(c) ==
    /\ pc = "sweep"
    /\ pc' = "sweep"
    /\ c \in coords \ coords'
    /\ new.g[c] = grid[c]

\* C23: random death is governed by the configured parameters: when
\* predator_death_probability (resp. prey_random_death) is 0, no Predator
\* (resp. Prey) is removed by random death: the only Predator (resp. Prey) of
\* a grid, its hunger below the starvation threshold, is still on the grid,
\* where it was or elsewhere, when its rule has been evaluated.
C23_NoRandomDeathAtZero ==
    [][\A c \in DOMAIN grid :
          Evaluates(c) =>
             /\ (/\ grid[c] = PREDATOR
                 /\ CountKind(new.g, PREDATOR) = 1
                 /\ predator_hunger[c] < PredatorThreshold
                 /\ params["predator_death_probability"] = 0)
                   => CountKind(new'.g, PREDATOR) >= 1
             /\ (/\ grid[c] = PREY
                 /\ CountKind(new.g, PREY) = 1
                 /\ prey_hunger[c] < PreyThreshold
                 /\ params["prey_random_death"] = 0)
                   => CountKind(new'.g, PREY) >= 1]_vars

\* the offsets of a neighbourhood: von Neumann by Manhattan distance, Moore
\* by Chebyshev distance, the centre excluded
NeighbourOffsets(neighborhood_type, distance) ==
    {d \in (-distance .. distance) \X (-distance .. distance) :
        IF neighborhood_type = "von_neumann"
        THEN 0 < Abs(d[1]) + Abs(d[2]) /\ Abs(d[1]) + Abs(d[2]) <= distance
        ELSE ~(d[1] = 0 /\ d[2] = 0)}

\* the coordinates a call returned are those of the offsets, wrapped
ReturnsWrapped(r) ==
    LET offs == NeighbourOffsets(r.neighborhood_type, r.distance)
    IN  /\ Len(r.out) = Cardinality(offs)
        /\ Elems(r.out) = {<<(r.c[1] + d[1]) % r.size, (r.c[2] + d[2]) % r.size>> :
                              d \in offs}
        /\ \A n \in Elems(r.out) : InGrid(r.size, n)

\* the coordinates a call returned are those of the offsets that stay in range
ReturnsInRange(r) ==
    LET offs == NeighbourOffsets(r.neighborhood_type, r.distance)
        kept == {d \in offs : InGrid(r.size, <<r.c[1] + d[1], r.c[2] + d[2]>>)}
    IN  /\ Len(r.out) = Cardinality(kept)
        /\ Elems(r.out) = {<<r.c[1] + d[1], r.c[2] + d[2]>> : d \in kept}

\* C24: the neighbours of a cell are those at the von Neumann offsets
\* (0 < |dx| + |dy| <= radius) or the Moore offsets (0 < max(|dx|, |dy|) <=
\* radius); under torus every offset is wrapped modulo the size, so the full
\* offset count is returned and every coordinate lies in [0, size), also for
\* edge and corner cells; under finite exactly the in-range offsets are
\* returned.
C24_NeighboursByKindAndBoundary ==
    reply.op = "neighbors" =>
        /\ reply.grid_type = "torus" => ReturnsWrapped(reply)
        /\ reply.grid_type = "finite" => ReturnsInRange(reply)

\* the cells within the given distance of c, by the neighbourhood and the
\* boundary mode of the session
Neighbourhood(c, distance) ==
    LET offs == NeighbourOffsets(params["neighborhood_type"], distance)
        raw == {<<c[1] + d[1], c[2] + d[2]>> : d \in offs}
    IN  IF params["grid_type"] = "torus"
        THEN {<<n[1] % Size, n[2] % Size>> : n \in raw}
        ELSE {n \in raw : InGrid(Size, n)}

\* the rule of cell o, just evaluated, has written cell n of the buffers
Wrote(n) ==
    <<new'.g[n], new'.ph[n], new'.yh[n]>> # <<new.g[n], new.ph[n], new.yh[n]>>

\* the Predator of cell o, whose rule is being evaluated, hunts on cell t
HuntsOn(o, t) ==
    /\ Evaluates(o)
    /\ grid[o] = PREDATOR
    /\ grid[t] = PREY
    /\ new'.g[t] = PREDATOR
    /\ Wrote(t)

\* the Predator of cell o, whose rule is being evaluated, places an offspring
\* on cell n
PlacesOffspringOn(o, n) ==
    /\ Evaluates(o)
    /\ grid[o] = PREDATOR
    /\ predator_hunger[o] >= 0
    /\ n # o
    /\ grid[n] # PREY
    /\ new'.g[n] = PREDATOR
    /\ new'.ph[n] = 0
    /\ Wrote(n)

\* C25: when a Predator at cell o hunts, the target is a cell within radius 2
\* of o that held Prey at generation start, and the rule leaves the target
\* Predator with hunger 0 and o Empty with predator hunger -1; in the
\* committed next generation every cell that went from Prey to Predator has
\* predator hunger 0 and has, within radius 2, a cell that went from Predator
\* to Empty with predator hunger -1; an offspring (hunger 0) is placed only
\* by a rule that hunts, and only on a radius-1 neighbour of o that was Empty
\* at generation start.
C25_SuccessfulHunt ==
    [][/\ \A o, t \in DOMAIN grid :
             HuntsOn(o, t) =>
                /\ t \in Neighbourhood(o, 2)
                /\ new'.ph[t] = 0
                /\ new'.g[o] = EMPTY
                /\ new'.ph[o] = -1
       /\ \A o, n \in DOMAIN grid :
             PlacesOffspringOn(o, n) =>
                /\ \E t \in Neighbourhood(o, 2) :
                      grid[t] = PREY /\ new'.g[t] = PREDATOR /\ new'.ph[t] = 0
                /\ new'.g[o] = EMPTY
                /\ n \in Neighbourhood(o, 1)
                /\ grid[n] = EMPTY
       /\ Commits =>
             \A t \in DOMAIN grid :
                grid[t] = PREY /\ grid'[t] = PREDATOR =>
                   /\ predator_hunger'[t] = 0
                   /\ \E o \in DOMAIN grid :
                         /\ t \in Neighbourhood(o, 2)
                         /\ grid[o] = PREDATOR
                         /\ grid'[o] = EMPTY
                         /\ predator_hunger'[o] = -1]_vars

\* a sweep is over in which a Predator has hunted a Prey that was not next to
\* it and an offspring has been placed
C25_Witness ==
    /\ pc = "sweep"
    /\ coords = {}
    /\ \E o, t, n \in DOMAIN grid :
          /\ grid[o] = PREDATOR /\ new.g[o] = EMPTY /\ new.ph[o] = -1
          /\ grid[t] = PREY /\ new.g[t] = PREDATOR /\ new.ph[t] = 0
          /\ t \in Neighbourhood(o, 2) \ Neighbourhood(o, 1)
          /\ grid[n] = EMPTY /\ new.g[n] = PREDATOR /\ new.ph[n] = 0
          /\ n \in Neighbourhood(o, 1)
          /\ CountKind(grid, PREDATOR) = 1

\* the rule just evaluated has written no cell of the buffers outside S
WroteOnly(S) == \A n \in DOMAIN grid \ S : ~Wrote(n)

\* some radius-1 neighbour of o held the kind at generation start
HasNeighbour(o, kind) == \E n \in Neighbourhood(o, 1) : grid[n] = kind

\* the outcomes of the rule of the Predator at o, hunger h, as the step
\* new -> new' shows them
PredatorRemoved(o) == new'.g[o] = EMPTY /\ new'.ph[o] = new.ph[o] /\ WroteOnly({o})

PredatorFed(o) ==
    \E t \in Neighbourhood(o, 2) :
       grid[t] = PREY /\ new'.g[t] = PREDATOR /\ new'.ph[t] = 0 /\ new'.g[o] = EMPTY

PredatorStays(o) ==
    /\ new'.g[o] = PREDATOR
    /\ new'.ph[o] = predator_hunger[o] + 1
    /\ WroteOnly({o})

PredatorMoves(o) ==
    \E d \in Neighbourhood(o, 1) :
       /\ grid[d] = EMPTY
       /\ new'.g[d] = PREDATOR
       /\ new'.ph[d] = predator_hunger[o] + 1
       /\ new'.g[o] = EMPTY
       /\ new'.ph[o] = -1
       /\ WroteOnly({o, d})

\* the outcomes of the rule of the Prey at o
PreyRemoved(o) == new'.g[o] = EMPTY /\ new'.yh[o] = new.yh[o] /\ WroteOnly({o})

PreyFed(o) ==
    \E s \in Neighbourhood(o, 1) :
       grid[s] = SUBSTRATE /\ new'.g[s] = EMPTY /\ new'.g[o] = PREY /\ new'.yh[o] = 0

PreyStays(o) ==
    /\ new'.g[o] = PREY
    /\ new'.yh[o] = prey_hunger[o] + 1
    /\ WroteOnly({o})

PreyMoves(o) ==
    \E d \in Neighbourhood(o, 1) :
       /\ grid[d] = EMPTY
       /\ new'.g[d] = PREY
       /\ new'.yh[d] = prey_hunger[o] + 1
       /\ new'.g[o] = EMPTY
       /\ new'.yh[o] = -1
       /\ WroteOnly({o, d})

\* C26: a Predator (resp. Prey) that survives and does not feed either stays
\* at its cell with its hunger incremented by 1, or moves to a radius-1
\* neighbour that was Empty at generation start: the destination then holds
\* it with the incremented hunger and the origin is Empty with hunger -1.  A
\* Prey with no Substrate neighbour and at least one Empty neighbour that
\* does not freeze (only a Prey with a Predator neighbour can) always moves,
\* and a Prey with no Empty neighbour remains in place.
C26_NonFeedingMovement ==
    [][\A o \in DOMAIN grid :
          Evaluates(o) =>
             /\ grid[o] = PREDATOR =>
                   \/ PredatorRemoved(o)
                   \/ PredatorFed(o)
                   \/ PredatorStays(o)
                   \/ PredatorMoves(o)
             /\ grid[o] = PREY =>
                   /\ \/ PreyRemoved(o)
                      \/ PreyFed(o)
                      \/ PreyStays(o)
                      \/ PreyMoves(o)
                   /\ (/\ ~HasNeighbour(o, SUBSTRATE)
                       /\ HasNeighbour(o, EMPTY)
                       /\ ~HasNeighbour(o, PREDATOR))
                         => PreyRemoved(o) \/ PreyMoves(o)
                   /\ ~HasNeighbour(o, EMPTY) =>
                         \/ PreyRemoved(o)
                         \/ new'.g[o] = PREY /\ WroteOnly({o} \cup {s \in DOMAIN grid : grid[s] = SUBSTRATE})]_vars

\* in one sweep a Predator that did not feed has stayed or moved, and a Prey
\* with no Substrate and no Predator next to it has moved to an Empty
\* neighbour
C26_Witness ==
    /\ pc = "sweep"
    /\ \E o \in DOMAIN grid \ coords :
          /\ grid[o] = PREDATOR
          /\ \/ new.g[o] = PREDATOR /\ new.ph[o] = predator_hunger[o] + 1
             \/ \E d \in Neighbourhood(o, 1) :
                   /\ grid[d] = EMPTY /\ new.g[d] = PREDATOR
                   /\ new.ph[d] = predator_hunger[o] + 1 /\ new.g[o] = EMPTY
    /\ \E o \in DOMAIN grid \ coords :
          /\ grid[o] = PREY
          /\ ~HasNeighbour(o, SUBSTRATE) /\ ~HasNeighbour(o, PREDATOR)
          /\ \E d \in Neighbourhood(o, 1) :
                /\ grid[d] = EMPTY /\ new.g[d] = PREY
                /\ new.yh[d] = prey_hunger[o] + 1
                /\ new.g[o] = EMPTY /\ new.yh[o] = -1

\* the Prey of cell o, whose rule is being evaluated, eats: it consumes the
\* Substrate of one radius-1 neighbour and stays with hunger 0, and it
\* writes no other cell but that of an offspring, if it has one
PreyEats(o) ==
    \E s \in Neighbourhood(o, 1) :
       /\ grid[s] = SUBSTRATE
       /\ new'.g[s] = EMPTY
       /\ new'.g[o] = PREY
       /\ new'.yh[o] = 0
       /\ \/ WroteOnly({o, s})
          \/ \E n \in Neighbourhood(o, 1) :
                /\ grid[n] = EMPTY
                /\ new'.g[n] = PREY
                /\ new'.yh[n] = 0
                /\ WroteOnly({o, s, n})

\* the rule being evaluated at o creates a Prey of hunger 0 on cell n
CreatesPreyOn(o, n) ==
    /\ Evaluates(o)
    /\ ~(grid[o] = PREY /\ prey_hunger[o] = -1)
    /\ n # o
    /\ new'.g[n] = PREY
    /\ new'.yh[n] = 0
    /\ Wrote(n)

\* C27: a Prey that survives, does not freeze (only a Prey with a Predator
\* within radius 1 can) and has a Substrate cell within radius 1 consumes
\* exactly one such cell, which is Empty from then on to the end of the
\* sweep, stays at its own cell with hunger 0 and does not move; a Prey of
\* hunger 0 is created on another cell only by a Prey that eats in the same
\* rule, on a radius-1 neighbour that was Empty at generation start; a Prey
\* that freezes writes nothing but its own incremented hunger.
C27_PreyForaging ==
    [][/\ \A o \in DOMAIN grid :
             (Evaluates(o) /\ grid[o] = PREY /\ HasNeighbour(o, SUBSTRATE)) =>
                \/ PreyRemoved(o)
                \/ PreyEats(o)
                \/ HasNeighbour(o, PREDATOR) /\ PreyStays(o)
       /\ \A o, n \in DOMAIN grid :
             CreatesPreyOn(o, n) =>
                /\ grid[o] = PREY
                /\ PreyEats(o)
                /\ n \in Neighbourhood(o, 1)
                /\ grid[n] = EMPTY
       /\ \A s \in DOMAIN grid :
             (pc = "sweep" /\ grid[s] = SUBSTRATE /\ new.g[s] = EMPTY) =>
                (IF pc' = "idle" THEN grid'[s] ELSE new'.g[s]) = EMPTY]_vars

\* a sweep is over in which a Prey with no Predator next to it has eaten and
\* has an offspring on a neighbour that was Empty
C27_Witness ==
    /\ pc = "sweep"
    /\ coords = {}
    /\ \E o \in DOMAIN grid :
          /\ grid[o] = PREY
          /\ ~HasNeighbour(o, PREDATOR)
          /\ new.g[o] = PREY
          /\ new.yh[o] = 0
          /\ prey_hunger[o] >= 0
          /\ \E s \in Neighbourhood(o, 1) : grid[s] = SUBSTRATE /\ new.g[s] = EMPTY
          /\ \E n \in Neighbourhood(o, 1) :
                grid[n] = EMPTY /\ new.g[n] = PREY /\ new.yh[n] = 0

\* the number of radius-1 neighbours of c, one per offset, that held the kind
\* at generation start
NeighbourCount(c, kind) ==
    LET offs == NeighbourOffsets(params["neighborhood_type"], 1)
        At(d) == IF params["grid_type"] = "torus"
                 THEN <<(c[1] + d[1]) % Size, (c[2] + d[2]) % Size>>
                 ELSE <<c[1] + d[1], c[2] + d[2]>>
    IN  Cardinality({d \in offs : InGrid(Size, At(d)) /\ grid[At(d)] = kind})

\* the step of the model that commits a generation of a session whose
\* initial_substrate_probability is 0
CommitsWithoutRegrowth ==
    Commits /\ params["initial_substrate_probability"] = 0

C29_KindTransitions ==
    [][/\ Commits =>
             \A c \in DOMAIN grid :
                /\ grid[c] = SUBSTRATE =>
                      /\ grid'[c] \in {SUBSTRATE, EMPTY}
                      /\ grid'[c] = EMPTY =>
                            \/ params["substrate_random_death"] > 0
                            \/ HasNeighbour(c, PREY)
                /\ grid[c] = PREDATOR => grid'[c] \in {PREDATOR, EMPTY}
                /\ grid[c] = PREY =>
                      /\ grid'[c] \in {PREY, EMPTY, PREDATOR}
                      /\ grid'[c] = PREDATOR =>
                            /\ predator_hunger'[c] = 0
                            /\ \E o \in DOMAIN grid :
                                  grid[o] = PREDATOR /\ c \in Neighbourhood(o, 2)
       /\ \A o, n \in DOMAIN grid :
             (Evaluates(o) /\ n # o /\ Wrote(n)) =>
                grid[n] \in {EMPTY, PREY, SUBSTRATE}]_vars

\* a sweep is over, in a session without random death of Substrate, in which
\* a Substrate cell has been consumed and a Prey cell has been hunted
C29_Witness ==
    /\ pc = "sweep"
    /\ coords = {}
    /\ params["substrate_random_death"] = 0
    /\ \E c \in DOMAIN grid : grid[c] = SUBSTRATE /\ new.g[c] = EMPTY
    /\ \E c \in DOMAIN grid : grid[c] = PREY /\ new.g[c] = PREDATOR
    /\ \E c \in DOMAIN grid : grid[c] = PREDATOR /\ new.g[c] = EMPTY

(* ---- claims about the starvation-risk counts ---- *)

\* the cells of the committed grid that hold the kind with a hunger of at
\* least 80 % of the threshold
AtRisk(kind, hunger, threshold) ==
    {c \in DOMAIN grid : grid[c] = kind /\ 5 * hunger[c] >= 4 * threshold}

\* C30: starving_predators is the number of Predator cells whose hunger h
\* satisfies h >= 0.8 * predator_starvation_steps, that is 5 h >= 4 T, and
\* starving_prey likewise with prey_starvation_steps, for every threshold
\* T >= 1, multiple of 5 or not.
C30_StarvationRiskCounts ==
    (pc \in {"idle", "sweep"} /\ last_statistics # None) =>
        /\ last_statistics.starving_predators =
              Cardinality(AtRisk(PREDATOR, predator_hunger,
                                 params["predator_starvation_steps"]))
        /\ last_statistics.starving_prey =
              Cardinality(AtRisk(PREY, prey_hunger,
                                 params["prey_starvation_steps"]))

(* ---- claims about the sweep as a whole ---- *)

\* the buffers as Simulation.step allocates them
FreshBuffers ==
    [g |-> grid,
     ph |-> [c \in DOMAIN grid |-> -1],
     yh |-> [c \in DOMAIN grid |-> -1]]

\* the buffers b with the writes that turned the fresh buffers into w
Overlaid(b, w) ==
    [g |-> [n \in DOMAIN grid |->
               IF w.g[n] # FreshBuffers.g[n] THEN w.g[n] ELSE b.g[n]],
     ph |-> [n \in DOMAIN grid |->
               IF w.ph[n] # FreshBuffers.ph[n] THEN w.ph[n] ELSE b.ph[n]],
     yh |-> [n \in DOMAIN grid |->
               IF w.yh[n] # FreshBuffers.yh[n] THEN w.yh[n] ELSE b.yh[n]]]

\* the rule of cell c, by the kind the cell held at generation start, run on
\* the fresh buffers: it sees nothing of what the sweep has written so far
RuleOnStart(c) ==
    IF grid[c] = PREDATOR
    THEN update_predator(params, Size, grid, predator_hunger, FreshBuffers, c)
    ELSE IF grid[c] = PREY
    THEN update_prey(params, Size, grid, prey_hunger, FreshBuffers, c)
    ELSE IF grid[c] = SUBSTRATE
    THEN update_substrate(params, FreshBuffers, c)
    ELSE update_empty(params, Size, grid, FreshBuffers, c)

\* no rule has written cell c of the buffers
Unwritten(c) == <<new.g[c], new.ph[c], new.yh[c]>> = <<grid[c], -1, -1>>

\* C31: in one step each of the N x N coordinates is visited exactly once, in
\* any order; the rule of a visited cell is skipped exactly when an earlier
\* processed cell has written that coordinate of the buffer, and is evaluated
\* otherwise; and what a rule writes depends only on the generation-start
\* grid and hunger arrays, not on the buffer.
C31_ExactlyOnceSweep ==
    [][/\ (pc = "idle" /\ pc' = "sweep") => coords' = DOMAIN grid
       /\ (pc = "sweep" /\ pc' = "sweep") =>
             \E c \in coords :
                /\ coords' = coords \ {c}
                /\ IF Unwritten(c)
                   THEN \E o \in RuleOnStart(c) : new' = Overlaid(new, o.b)
                   ELSE /\ new' = new
                        /\ new.g[c] # grid[c]
       /\ Commits => coords = {}
       /\ pc' # "sweep" => coords' = {}]_vars

\* in a sweep one rule has been evaluated and has written a cell that is
\* still to be visited, another written cell has been visited and skipped,
\* and every order of the remaining cells is open
C31_Witness ==
    /\ pc = "sweep"
    /\ \E c \in coords : new.g[c] # grid[c]
    /\ \E c \in DOMAIN grid \ coords : grid[c] = PREY /\ new.g[c] = PREDATOR
    /\ Cardinality(coords) >= 2
    /\ NextCoords(coords, Size) = coords


\* the rule of the Predator (resp. Prey) of cell o, just evaluated, removed it
\* by random death or starvation
PredatorDies(o) ==
    /\ grid[o] = PREDATOR
    /\ PredatorDeathChance > 0 \/ predator_hunger[o] + 1 >= PredatorThreshold
    /\ PredatorRemoved(o)

PreyDies(o) ==
    /\ grid[o] = PREY
    /\ PreyDeathChance > 0 \/ prey_hunger[o] + 1 >= PreyThreshold
    /\ PreyRemoved(o)

\* the Predators the rule of cell o, just evaluated, added: the offspring it
\* placed and the birth on an Empty cell
PredatorsAdded(o) ==
    Cardinality({n \in DOMAIN grid : PlacesOffspringOn(o, n)})
    + (IF grid[o] = EMPTY /\ new'.g[o] = PREDATOR THEN 1 ELSE 0)

\* C32: entity conservation under movement: no entity is lost because two
\* entities chose the same destination.  Rule by rule, the Predators of the
\* next generation change only by the one that died or starved and by the
\* offspring and births added, so that Predators(g+1) = Predators(g) - removed
\* + added; and the Prey decrease only by the one that died or starved and by
\* those hunted.
C32_EntityConservation ==
    [][\A o \in DOMAIN grid :
          Evaluates(o) =>
             /\ CountKind(new'.g, PREDATOR) =
                   CountKind(new.g, PREDATOR)
                   - (IF PredatorDies(o) THEN 1 ELSE 0) + PredatorsAdded(o)
             /\ CountKind(new'.g, PREY) >=
                   CountKind(new.g, PREY)
                   - (IF PreyDies(o) THEN 1 ELSE 0)
                   - Cardinality({t \in DOMAIN grid : HuntsOn(o, t)})]_vars


\* the cells whose Prey of generation start has been hunted in this sweep
HuntedCells == {t \in DOMAIN grid : grid[t] = PREY /\ new.g[t] = PREDATOR}

\* the cells, Empty at generation start, on which a Prey has been born
PreyBornCells ==
    {n \in DOMAIN grid : grid[n] = EMPTY /\ new.g[n] = PREY /\ new.yh[n] = 0}

\* C33: a hunted Prey does not survive: once a Predator has successfully
\* hunted the Prey that occupied cell t at generation start, that Prey exists
\* nowhere in the generation being built, whether its own cell was processed
\* before or after the Predator; so each hunted cell reduces the surviving
\* Prey by one: the Prey of the buffer other than the newly born, plus the
\* hunted cells, never exceed the Prey of generation start.
C33_HuntedPreyDoesNotSurvive ==
    pc = "sweep" =>
       CountKind(new.g, PREY) - Cardinality(PreyBornCells)
       + Cardinality(HuntedCells) <= CountKind(grid, PREY)


\* C34: hunger bounds: in every committed state of a fault-free run with
\* starvation thresholds >= 0, and so at the start of every generation, every
\* Predator cell has 0 <= predator_hunger <= predator_starvation_steps and
\* every Prey cell has 0 <= prey_hunger <= prey_starvation_steps.
C34_HungerBounds ==
    (pc \in {"idle", "sweep"} /\ PredatorThreshold >= 0 /\ PreyThreshold >= 0) =>
       \A c \in DOMAIN grid :
          /\ grid[c] = PREDATOR =>
                0 <= predator_hunger[c] /\ predator_hunger[c] <= PredatorThreshold
          /\ grid[c] = PREY =>
                0 <= prey_hunger[c] /\ prey_hunger[c] <= PreyThreshold

\* a committed generation, not the first, in which a Predator and a Prey have
\* both reached their thresholds
C34_Witness ==
    /\ Committed
    /\ Gen >= 1
    /\ \E c \in DOMAIN grid :
          grid[c] = PREDATOR /\ predator_hunger[c] = PredatorThreshold
    /\ \E c \in DOMAIN grid :
          grid[c] = PREY /\ prey_hunger[c] = PreyThreshold


\* C35: extinction is absorbing: once a committed generation holds no
\* Predator, no later generation holds one, and the same for Prey: no rule
\* creates a Predator (resp. Prey) from a generation without one, neither in
\* the buffer during the sweep nor in the generation committed.
C35_ExtinctionAbsorbing ==
    [][(pc \in {"idle", "sweep"}) =>
          /\ (CountKind(grid, PREDATOR) = 0) =>
                /\ CountKind(grid', PREDATOR) = 0
                /\ (pc' = "sweep") => (CountKind(new'.g, PREDATOR) = 0)
          /\ (CountKind(grid, PREY) = 0) =>
                /\ CountKind(grid', PREY) = 0
                /\ (pc' = "sweep") => (CountKind(new'.g, PREY) = 0)
      ]_vars

\* the Predators, present at construction, were extinct in generation 1, and
\* generation 2 is committed with Prey still present
C35_Witness ==
    /\ Committed
    /\ Gen = 2
    /\ stats.predator_count[1] > 0
    /\ stats.predator_count[2] = 0
    /\ CountKind(grid, PREDATOR) = 0
    /\ CountKind(grid, PREY) > 0


\* C36: on a torus of any size >= 1, small sizes included, the neighbour
\* list a neighbourhood function returns for a cell never contains the cell
\* itself and never the same coordinate twice (so that a single Predator is
\* never counted as two Predator neighbours).
C36_TorusNeighboursDistinct ==
    (reply.op = "neighbors" /\ reply.grid_type = "torus") =>
       \A i \in 1 .. Len(reply.out) :
          /\ reply.out[i] # reply.c
          /\ \A j \in 1 .. Len(reply.out) :
                i # j => reply.out[i] # reply.out[j]


(* ---- claims about sessions ---- *)

\* the generations Simulation.step has computed for the session's simulation
Generations == Len(stats.predator_count) - 1

\* C37: session counter invariant: after any sequence of HTTP step requests
\* and WebSocket step/stop/ping commands, 0 <= current_step <=
\* max(total_steps, 0) and status 'completed' implies current_step >=
\* total_steps; a generation is computed only when current_step <
\* total_steps; and a request on a completed session leaves the grid and the
\* counter unchanged, the step request reporting steps_run 0.
C37_SessionCounter ==
    /\ [](pc = "idle" =>
             /\ 0 <= current_step
             /\ current_step <= (IF total_steps > 0 THEN total_steps ELSE 0)
             /\ status = "completed" => current_step >= total_steps)
    /\ [][pc = "idle" =>
             /\ Generations' > Generations => current_step < total_steps
             /\ status = "completed" =>
                   /\ grid' = grid
                   /\ Generations' = Generations
                   /\ current_step' = current_step
                   /\ reply'.op \in {"step", "already_completed"} =>
                         reply'.status = "completed"
                   /\ reply'.op = "already_completed" => reply'.steps_run = 0
                   /\ (reply'.op = "step" /\ reply'.id = "http") =>
                         (reply' = reply \/ reply'.steps_run = 0)]_vars

\* a session of two steps has run both, through a step request and a
\* WebSocket command or through one request of two steps, and a step request
\* on the completed session has been answered with steps_run 0
C37_Witness ==
    /\ pc = "idle"
    /\ total_steps = 2
    /\ current_step = 2
    /\ Generations = 2
    /\ status = "completed"
    /\ reply.op = "already_completed"
    /\ reply.steps_run = 0


\* C38: stop halts the session: once the WebSocket command 'stop' has set
\* status 'stopped', the requests that follow (step requests over HTTP or
\* WebSocket among them) compute no generation: current_step and the grid
\* stay unchanged and the status stays 'stopped' (until a reset).
C38_StopHalts ==
    [][(pc = "idle" /\ status = "stopped" /\ reply'.op # "reset") =>
          /\ Generations' = Generations
          /\ current_step' = current_step
          /\ grid' = grid
          /\ status' = "stopped"]_vars


\* C39: reset restores generation 0: from any prior status, once the
\* WebSocket command 'reset' has been answered the answer is not an error, it
\* carries the grid and the statistics of the session's new simulation, the
\* simulation is a freshly initialized one (no generation computed), and the
\* session has current_step 0 and status 'running'.
C39_ResetRestores ==
    (pc = "idle" /\ reply.op = "reset") =>
       /\ reply.status # "error"
       /\ reply.status = "running"
       /\ reply.current_step = 0
       /\ reply.grid = grid
       /\ reply.statistics = get_statistics(Self).out
       /\ Generations = 0
       /\ current_step = 0
       /\ status = "running"


\* the session is answering a step request: what every step of a session
\* that only receives step requests does once the session exists
StepRequested == pc = "idle" /\ reply'.op \in {"step", "already_completed"}

\* C40 as stated: progress: for a session with total_steps >= 0, if step
\* requests keep being issued and no step fails, the session eventually
\* reaches status 'completed' with current_step = total_steps; each request
\* advances current_step by exactly the reported steps_run, which is at least
\* 1 while the session is not completed; after completion current_step never
\* changes.
C40_ProgressAsStated ==
    /\ (pc = "idle" /\ total_steps >= 0) ~>
          (status = "completed" /\ current_step = total_steps)
    /\ [][(StepRequested /\ total_steps >= 0) =>
             /\ current_step' = current_step + reply'.steps_run
             /\ status # "completed" => reply'.steps_run >= 1
             /\ status = "completed" => current_step' = current_step]_vars

\* C40: progress: for a session with total_steps >= 0, if step requests keep
\* being issued and no step fails, the session eventually reaches status
\* 'completed' with current_step = total_steps; each request advances
\* current_step by exactly the reported steps_run, which is at least 1 while
\* current_step < total_steps and 0 otherwise; after completion current_step
\* never changes.
C40_Progress ==
    /\ (pc = "idle" /\ total_steps >= 0) ~>
          (status = "completed" /\ current_step = total_steps)
    /\ [][(StepRequested /\ total_steps >= 0) =>
             /\ current_step' = current_step + reply'.steps_run
             /\ current_step < total_steps => reply'.steps_run >= 1
             /\ ~(current_step < total_steps) => reply'.steps_run = 0
             /\ status = "completed" => current_step' = current_step]_vars

\* a session of two steps has been completed by a request that advanced it
\* by one step
C40_Witness ==
    /\ pc = "idle"
    /\ total_steps = 2
    /\ current_step = 2
    /\ Generations = 2
    /\ status = "completed"
    /\ reply.op = "step"
    /\ reply.steps_run = 1

====
